---- MODULE Spec2Model ----
(***************************************************************************)
(* A model of the conversation engine and the tracer of the generative AI  *)
(* toolkit: the span scope of tracer/tracer.py (ContextAwareSpanPersistor, *)
(* the @traced generator wrapper), the converse loop and the tool          *)
(* dispatcher of agent/agent.py, and the aliasing registry of              *)
(* BedrockConverseAgent.__init__.                                          *)
(*                                                                         *)
(* Span ids are the positions 1..Len(spans); 0 stands for None.            *)
(* Contexts (contextvars.Context) are numbered: 0 is the calling thread,   *)
(* 1..MaxTools are the copies handed to the worker pool.                   *)
(***************************************************************************)
EXTENDS Integers, Sequences, FiniteSets, TLC

\* ------------------------------------------------------------------ bounds
MaxSpans == 3
MaxTools == 2
MaxSuccessiveToolInvocations == 1
\* tool calls the model asks for during one call of converse
MaxToolCalls == 3
\* agents constructed, ConversationHistory and Tracer objects created
MaxAgents == 2
MaxObjects == 3
\* conversations of one supervisor call, the supervisor's included
MaxInvocations == 4
\* spans of one conversation: its root, its model and tool invocations
MaxInvocationSpans == 3
\* messages of a stored conversation history
MaxMessages == 4
\* calls of converse on one agent
MaxTurns == 3
\* fragments an overriding converse_stream yields
MaxFragments == 2
\* content block events of one response stream
MaxEvents == 3
\* InMemoryTracer(memory_size=MemorySize)
MemorySize == 2
\* spans persisted to one InMemoryTracer
MaxPersists == 3
\* the children a TeeTracer holds at most
MaxTracers == 3
\* the temporary_tracer blocks open at once
MaxTemporary == 1
\* the spans put on a QueueTracer's queue
MaxPuts == 3
\* the calls of shutdown() and __exit__ on a QueueTracer
MaxShutdowns == 2
\* the nesting depth of the trace() scopes of the snapshot run
MaxDepth == 2
\* the snapshots emitted in the snapshot run
MaxSnapshots == 3
\* the fragments one converse_stream call yields
MaxDelivered == 5

VARIABLES
    spans,        \* every Trace object created so far, in creation order
    cur,          \* context -> the ambient current span (context.span)
    persisted,    \* the spans handed to Tracer.persist, in call order
    nextTraceId,  \* the next fresh trace id
    stack,        \* frame -> its open trace() scopes, innermost last
    genState,     \* the traced generator: "new", "running", "suspended", "done"
    exc,          \* the exception propagating in the calling frame, or "none"
    opened,       \* per span: how it was opened and how its scope was left
    pc,           \* where the converse call is: "idle", "loop", "tools", "returned", "raised"
    history,      \* the conversation history: the messages added so far
    iter,         \* the index of the converse loop
    root,         \* the scope of the call's "converse" span
    workers,      \* the tool calls of the current dispatch, in submission order
    finished,     \* the workers of the current dispatch, in completion order
    err,          \* the exception the call raised, or "none"
    rounds,       \* tool-dispatch rounds of the current call
    llmCalls,     \* model invocations of the current call
    nextToolUseId, \* the next toolUseId the model will use
    stopEvent,    \* the call's stop_event: FALSE unset, TRUE set
    outstanding,  \* the workers whose tool call was running when stop_event was set
    objects,      \* every ConversationHistory / Tracer object created: its type
    callerRefs,   \* the objects the program outside the agents holds a reference to
    agents,       \* every agent constructed so far
    instances_used, \* class -> whether it has an _instances_used of its own, and that set
    lastInit,     \* the last call of __init__: its arguments and how it ended
    lastAdd,      \* the last add_attribute: the span, the pair, and the spans there were
    invocations,  \* supervisor and subordinate conversations: agent, caller, subcontext, spans
    callStack,    \* the invocations in progress, the innermost last
    messages,     \* a stored conversation history, as add_missing_tool_results is given it
    lastRepair,   \* the last add_missing_tool_results: its argument and what it returned
    turn_nr,      \* _calculate_turn_nr of the stored history
    cycle_nr,     \* the cycle of the turn in progress
    turns,        \* how each call of converse went, in order: running, completed, error
    contexts,     \* the AgentContext built for each model invocation, in order
    subclass,     \* a subclass of BedrockConverseAgent: what it overrides, and how
    returned,     \* what the last call of agent.converse returned
    stream,       \* the iterator the last call of agent.converse_stream gave, as consumed
    content_blocks,  \* the content blocks assembled from the response stream so far
    events,       \* the contentBlockStart and contentBlockDelta events received, in order
    streamState,  \* streaming, assembled, or the exception converse_stream raised
    stop_reason,  \* the stopReason of the messageStop event, "" before it
    metadata,     \* whether the metadata event has arrived
    yielded,      \* the fragments converse_stream has yielded for this response
    memory,       \* InMemoryTracer._memory: the stored spans, oldest first
    persists,     \* how many spans were persisted to the InMemoryTracer
    lastQuery,    \* the last get_traces on the unchanged memory, and what it returned
    tracers,      \* TeeTracer._tracers: the children, in configuration order
    snapshot_enabled, \* TeeTracer.snapshot_enabled
    temporary,    \* the children of the open temporary_tracer blocks, innermost last
    teeError,     \* what the last TeeTracer call raised, or "none"
    queue,        \* QueueTracer.queue: the spans put and not yet got, oldest first
    is_shutdown,  \* queue.is_shutdown
    consumer,     \* the loop over the IterableTracer: "running", "waiting" in get(), "done"
    received,     \* how many spans the loop was given
    waits,        \* how many times the loop blocked in queue.get()
    shutdowns,    \* how many times shutdown() or __exit__ ran
    queueError,   \* what the last QueueTracer call raised, or "none"
    scopes,       \* the open trace() scopes of the snapshot run, innermost last
    log,          \* the calls the tracer received: persist and persist_snapshot, in order
    reader,       \* a get_traces call that is copying the deque while other threads run
    gen,          \* the generator converse_stream returned: "none", "new", "running",
                  \* "suspended", "done", "closed"
    position,     \* where the body of converse_stream is
    requests,     \* how many times the caller asked the generator for a fragment
    delivered,    \* how many fragments the generator yielded
    appended,     \* how many messages the body appended to the history
    invoked,      \* how many model invocations the body made
    dispatched    \* how many times the body dispatched tools

tracerVars == <<spans, cur, persisted, nextTraceId>>
clientVars == <<stack, genState, exc, opened>>
agentVars == <<pc, history, iter, root, workers, finished, err, rounds, llmCalls,
               nextToolUseId>>
stopVars == <<stopEvent, outstanding>>
registryVars == <<objects, callerRefs, agents, instances_used, lastInit>>
attrVars == <<lastAdd>>
multiVars == <<invocations, callStack>>
historyVars == <<messages, lastRepair, turn_nr>>
turnVars == <<cycle_nr, turns, contexts>>
overrideVars == <<subclass, returned, stream>>
streamVars == <<content_blocks, events, streamState, stop_reason, metadata, yielded>>
storeVars == <<memory, persists, lastQuery>>
teeVars == <<tracers, snapshot_enabled, temporary, teeError>>
queueVars == <<queue, is_shutdown, consumer, received, waits, shutdowns, queueError>>
snapVars == <<scopes, log>>
raceVars == <<reader>>
lazyVars == <<gen, position, requests, delivered, appended, invoked, dispatched>>
lateVars == <<snapVars, raceVars, lazyVars>>
backendVars == <<storeVars, teeVars, queueVars, lateVars>>
frontVars == <<tracerVars, clientVars, agentVars, stopVars, registryVars, attrVars, multiVars,
               historyVars, turnVars, overrideVars, streamVars>>
auxVars == <<attrVars, multiVars, historyVars, turnVars, overrideVars, streamVars,
             backendVars>>
vars == <<spans, cur, persisted, nextTraceId, stack, genState, exc, opened,
          pc, history, iter, root, workers, finished, err, rounds, llmCalls,
          nextToolUseId, stopEvent, outstanding,
          objects, callerRefs, agents, instances_used, lastInit, lastAdd,
          invocations, callStack, messages, lastRepair, turn_nr,
          cycle_nr, turns, contexts, subclass, returned, stream,
          content_blocks, events, streamState, stop_reason, metadata, yielded,
          memory, persists, lastQuery,
          tracers, snapshot_enabled, temporary, teeError,
          queue, is_shutdown, consumer, received, waits, shutdowns, queueError,
          scopes, log, reader,
          gen, position, requests, delivered, appended, invoked, dispatched>>

\* None, where a span is expected
NoSpan == 0
\* context 0 is the calling thread's, 1..MaxTools the copies given to workers
Contexts == 0..MaxTools

\* ------------------------------------------------------------ the tracer
\* The tracer's state as one value, so that an operation can be applied
\* several times within one step of the program.
T == [spans |-> spans, cur |-> cur, persisted |-> persisted, next |-> nextTraceId]

SetT(t) ==
    /\ spans' = t.spans
    /\ cur' = t.cur
    /\ persisted' = t.persisted
    /\ nextTraceId' = t.next

\* Trace.__init__: a given trace_id is kept; without one the span shares the
\* trace of its parent, and a span without a parent starts a new trace.
TraceIdOf(t, given, parent) ==
    IF given # 0 THEN given
    ELSE IF parent # NoSpan THEN t.spans[parent].trace_id
    ELSE t.next

\* parent_span=self.parent_span or context.span
ParentOf(explicit, ambient) == IF explicit # NoSpan THEN explicit ELSE ambient

\* trace_id=context.span.trace_id if context.span else None
GivenTraceId(t, c) == IF t.cur[c] # NoSpan THEN t.spans[t.cur[c]].trace_id ELSE 0

NewTrace(name, tid, parent) ==
    [span_name |-> name, trace_id |-> tid, parent_span |-> parent,
     ended |-> FALSE, span_status |-> "UNSET",
     attributes |-> {}, inheritable |-> {}]

\* ContextAwareSpanPersistor.__enter__ in context c
Enter(t, c, name, explicit) ==
    LET parent == ParentOf(explicit, t.cur[c])
        tid == TraceIdOf(t, GivenTraceId(t, c), parent)
    IN  [t EXCEPT
            !.spans = Append(@, NewTrace(name, tid, parent)),
            !.cur = [@ EXCEPT ![c] = Len(t.spans) + 1],
            !.next = IF tid = t.next THEN t.next + 1 ELSE t.next]

\* The scope a `with tracer.trace(...)` holds: the span and what _reset restores.
Scope(t, c) == [span |-> Len(t.spans) + 1, prev |-> t.cur[c]]

ResetToParent(t, c, sc) == [t.cur EXCEPT ![c] = t.spans[sc.span].parent_span]

\* self._reset(): the context returns to what it was when the scope was entered
Reset(t, c, sc) == [t.cur EXCEPT ![c] = sc.prev]

ExceptionAttributes(excType) ==
    IF excType = "none" THEN {}
    ELSE {<<"exception.type", excType>>, <<"exception.message", excType>>,
          <<"exception.traceback", excType>>}

SpanStatusOnExit(old, excType) == IF excType # "none" THEN "ERROR" ELSE old

PersistOnlyOnSuccess(t, s, excType) ==
    IF excType = "none" THEN Append(t.persisted, s) ELSE t.persisted

\* self.persistor(self.trace)
Persist(t, s, excType) == Append(t.persisted, s)

\* ContextAwareSpanPersistor.__exit__ run in context c with exception excType
Exit(t, c, sc, excType) ==
    [t EXCEPT
        !.spans = [@ EXCEPT ![sc.span] =
            [@ EXCEPT !.ended = TRUE,
                      !.span_status = SpanStatusOnExit(@, excType),
                      !.attributes = @ \cup ExceptionAttributes(excType)]],
        !.cur = Reset(t, c, sc),
        !.persisted = Persist(t, sc.span, excType)]

ExitSwallows(excType) == "none"

\* __exit__ returns None: the exception that entered it goes on to the caller
ExitResult(excType) == excType

\* ---------------------------------------------- a client of the tracer
\* Frame "main" is the calling code, frame "gen" the body of one @traced
\* generator (generator_wrapper); both run in context 0, as a generator runs
\* in the context of whoever resumes it.
Keys(kv) == {p[1] : p \in kv}

\* a dict after d.update(kv)
Updated(d, kv) == {p \in d : p[1] \notin Keys(kv)} \cup kv

\* trace.add_attribute(k, v) for every pair of kv
AddAttributes(t, s, kv) == [t EXCEPT !.spans[s].attributes = Updated(@, kv)]

\* trace.add_attribute(k, v, inheritable=True)
AddInheritable(t, s, kv) ==
    [t EXCEPT !.spans[s].attributes = Updated(@, kv),
              !.spans[s].inheritable = Updated(@, kv)]

InheritedFromParentOnly(t, s) == IF s = NoSpan THEN {} ELSE t.spans[s].inheritable

\* the inheritable attributes a span hands down: its own over those of its
\* ancestors, the nearest first
RECURSIVE InheritedAttributes(_, _)
InheritedAttributes(t, s) ==
    IF s = NoSpan THEN {}
    ELSE Updated(InheritedAttributes(t, t.spans[s].parent_span), t.spans[s].inheritable)

AttributesInheritedFirst(t, s) ==
    Updated(t.spans[s].attributes, InheritedAttributes(t, t.spans[s].parent_span))

AttributesAtCreation(t, s) ==
    Updated(opened[s].inheritedAtOpen, t.spans[s].attributes)

\* Trace.attributes: the span's own attributes over the inheritable ones of
\* its ancestors, looked up through parent_span when the attributes are read
AttributesOf(t, s) ==
    Updated(InheritedAttributes(t, t.spans[s].parent_span), t.spans[s].attributes)

Frames == {"main", "gen"}

RunningFrame == IF genState = "running" THEN "gen" ELSE "main"

\* the spans whose scope some frame is still inside
ActiveSpans == UNION {{stack[f][i].span : i \in 1..Len(stack[f])} : f \in Frames}

Max(S) == IF S = {} THEN 0 ELSE CHOOSE x \in S : \A y \in S : y <= x

\* the scope entered last among those still active
InnermostActive == Max({s \in 1..Len(spans) : opened[s].left = "active"})

Opening(f, explicit) ==
    [frame |-> f, explicit |-> explicit, ambient |-> cur[0],
     inheritedAtOpen |-> InheritedAttributes(T, ParentOf(explicit, cur[0])),
     innermost |-> InnermostActive,
     left |-> "active", excIn |-> "none", excOut |-> "none"]

Left(op, s, kind, ein, eout) ==
    [op EXCEPT ![s] = [@ EXCEPT !.left = kind, !.excIn = ein, !.excOut = eout]]

\* An exception (or nothing) leaving the scopes scs, innermost first: every
\* `with` runs its __exit__ and hands on what __exit__ lets through.
RECURSIVE Unwind(_, _, _, _, _)
Unwind(t, op, scs, excType, kind) ==
    IF scs = <<>> THEN [t |-> t, op |-> op, e |-> excType]
    ELSE LET sc == scs[Len(scs)]
             out == ExitResult(excType)
         IN  Unwind(Exit(t, 0, sc, excType),
                    Left(op, sc.span, kind, excType, out),
                    SubSeq(scs, 1, Len(scs) - 1), out, kind)

\* the parent_span arguments the client passes: None, or the first span it
\* opened (any Trace object it still holds, active or ended)
ExplicitParents == {NoSpan} \cup (IF Len(spans) > 0 THEN {1} ELSE {})

InitTracer ==
    /\ spans = <<>>
    /\ cur = [c \in Contexts |-> NoSpan]
    /\ persisted = <<>>
    /\ nextTraceId = 1

InitClient ==
    /\ stack = [f \in Frames |-> <<>>]
    /\ genState = "new"
    /\ exc = "none"
    /\ opened = <<>>

NoScope == [span |-> NoSpan, prev |-> NoSpan]

InitAgent ==
    /\ pc = "idle"
    /\ history = <<>>
    /\ iter = 0
    /\ root = NoScope
    /\ workers = <<>>
    /\ finished = <<>>
    /\ err = "none"
    /\ rounds = 0
    /\ llmCalls = 0
    /\ nextToolUseId = 1
    /\ stopEvent = FALSE
    /\ outstanding = {}

Classes == {"BedrockConverseAgent", "Subclass"}

InitRegistry ==
    /\ objects = <<>>
    /\ callerRefs = {}
    /\ agents = <<>>
    /\ instances_used = [c \in Classes |-> [own |-> c = "BedrockConverseAgent", refs |-> {}]]
    /\ lastInit = [held |-> FALSE, raised |-> FALSE, valid |-> TRUE, reused |-> FALSE,
                   added |-> {}]

\* the state after the tracer and the agent classes are loaded: no span, no
\* call, no agent
NoAdd == [span |-> NoSpan, pair |-> <<"", "">>, inheritable |-> FALSE, spans |-> 0]

NoSubclass == [overrides |-> {}, text |-> "", fragments |-> <<>>]

NoReturn == [done |-> FALSE, value |-> ""]

NoStream == [of |-> "none", rest |-> <<>>, yielded |-> <<>>, done |-> FALSE, value |-> ""]

NoQuery ==
    [done |-> FALSE, trace_id |-> 0, attribute_filter |-> {}, result |-> <<>>, raised |-> "none"]

\* no get_traces call is under way
NoReader == [copying |-> FALSE, state |-> 0, copy |-> <<>>]

NoRepair == [done |-> FALSE, input |-> <<>>, output |-> <<>>]

InitAux ==
    /\ lastAdd = NoAdd
    /\ invocations = <<>>
    /\ callStack = <<>>
    /\ messages = <<>>
    /\ lastRepair = NoRepair
    /\ turn_nr = 0
    /\ cycle_nr = 0
    /\ turns = <<>>
    /\ contexts = <<>>
    /\ subclass = NoSubclass
    /\ returned = NoReturn
    /\ stream = NoStream
    /\ content_blocks = <<>>
    /\ events = <<>>
    /\ streamState = "streaming"
    /\ stop_reason = ""
    /\ metadata = FALSE
    /\ yielded = <<>>
    /\ memory = <<>>
    /\ persists = 0
    /\ lastQuery = NoQuery
    /\ tracers = <<>>
    /\ snapshot_enabled = FALSE
    /\ temporary = <<>>
    /\ teeError = "none"
    /\ queue = <<>>
    /\ is_shutdown = FALSE
    /\ consumer = "running"
    /\ received = 0
    /\ waits = 0
    /\ shutdowns = 0
    /\ queueError = "none"
    /\ scopes = <<>>
    /\ log = <<>>
    /\ reader = NoReader
    /\ gen = "none"
    /\ position = "start"
    /\ requests = 0
    /\ delivered = 0
    /\ appended = 0
    /\ invoked = 0
    /\ dispatched = 0

Init == InitTracer /\ InitClient /\ InitAgent /\ InitRegistry /\ InitAux

\* with tracer.trace(name, parent_span=explicit): in the running frame
TEnter(explicit) ==
    /\ exc = "none"
    /\ Len(spans) < MaxSpans
    /\ SetT(Enter(T, 0, "span", explicit))
    /\ stack' = [stack EXCEPT ![RunningFrame] = Append(@, Scope(T, 0))]
    /\ opened' = Append(opened, Opening(RunningFrame, explicit))
    /\ UNCHANGED <<genState, exc>>
    /\ UNCHANGED <<agentVars, stopVars, registryVars, auxVars>>

\* the running frame leaves its innermost `with` normally (the generator's
\* outermost scope is the wrapper's, left by GenReturn)
TExit ==
    /\ exc = "none"
    /\ Len(stack[RunningFrame]) > (IF RunningFrame = "gen" THEN 1 ELSE 0)
    /\ LET f == RunningFrame
           sc == stack[f][Len(stack[f])]
       IN  /\ SetT(Exit(T, 0, sc, "none"))
           /\ stack' = [stack EXCEPT ![f] = SubSeq(@, 1, Len(@) - 1)]
           /\ opened' = Left(opened, sc.span, "normal", "none", "none")
    /\ UNCHANGED <<genState, exc>>
    /\ UNCHANGED <<agentVars, stopVars, registryVars, auxVars>>

\* an exception raised in, or propagating into, the innermost scope of the
\* calling code leaves that scope
TExitError ==
    /\ genState # "running"
    /\ stack["main"] # <<>>
    /\ LET sc == stack["main"][Len(stack["main"])]
           e == IF exc = "none" THEN "ValueError" ELSE exc
       IN  /\ SetT(Exit(T, 0, sc, e))
           /\ stack' = [stack EXCEPT !["main"] = SubSeq(@, 1, Len(@) - 1)]
           /\ opened' = Left(opened, sc.span, "exception", e, ExitResult(e))
           /\ exc' = ExitResult(e)
    /\ UNCHANGED genState
    /\ UNCHANGED <<agentVars, stopVars, registryVars, auxVars>>

\* the calling code handles the propagating exception
TCatch ==
    /\ exc # "none"
    /\ exc' = "none"
    /\ UNCHANGED <<spans, cur, persisted, nextTraceId, stack, genState, opened>>
    /\ UNCHANGED <<agentVars, stopVars, registryVars, auxVars>>

\* next(g): the first one enters the wrapper's span (generator_wrapper)
GenNext ==
    /\ exc = "none"
    /\ \/ /\ genState = "new"
          /\ Len(spans) < MaxSpans
          /\ SetT(Enter(T, 0, "traced", NoSpan))
          /\ stack' = [stack EXCEPT !["gen"] = <<Scope(T, 0)>>]
          /\ opened' = Append(opened, Opening("gen", NoSpan))
       \/ /\ genState = "suspended"
          /\ UNCHANGED <<spans, cur, persisted, nextTraceId, stack, opened>>
    /\ genState' = "running"
    /\ exc' = exc
    /\ UNCHANGED <<agentVars, stopVars, registryVars, auxVars>>

\* the generator yields a value to its consumer
GenYield ==
    /\ genState = "running"
    /\ genState' = "suspended"
    /\ UNCHANGED <<spans, cur, persisted, nextTraceId, stack, exc, opened>>
    /\ UNCHANGED <<agentVars, stopVars, registryVars, auxVars>>

\* the generator's function returns: the wrapper's `with` is left normally
GenReturn ==
    /\ genState = "running"
    /\ Len(stack["gen"]) = 1
    /\ LET u == Unwind(T, opened, stack["gen"], "none", "normal")
       IN  SetT(u.t) /\ opened' = u.op
    /\ stack' = [stack EXCEPT !["gen"] = <<>>]
    /\ genState' = "done"
    /\ exc' = exc
    /\ UNCHANGED <<agentVars, stopVars, registryVars, auxVars>>

\* the generator's body raises: the exception leaves every scope of the
\* generator and reaches the consumer's next()
GenRaise ==
    /\ genState = "running"
    /\ LET u == Unwind(T, opened, stack["gen"], "ValueError", "exception")
       IN  SetT(u.t) /\ opened' = u.op /\ exc' = u.e
    /\ stack' = [stack EXCEPT !["gen"] = <<>>]
    /\ genState' = "done"
    /\ UNCHANGED <<agentVars, stopVars, registryVars, auxVars>>

\* g.close() (or the release of g) before it is exhausted: GeneratorExit is
\* raised at the yield, leaves the body's scopes, and is caught by the wrapper
\* inside its own `with` (except GeneratorExit: pass)
GenClose ==
    /\ exc = "none"
    /\ genState = "suspended"
    /\ LET g == stack["gen"]
           inner == Unwind(T, opened, SubSeq(g, 2, Len(g)), "GeneratorExit", "closed")
           outer == Unwind(inner.t, inner.op, SubSeq(g, 1, 1), "none", "closed")
       IN  SetT(outer.t) /\ opened' = outer.op
    /\ stack' = [stack EXCEPT !["gen"] = <<>>]
    /\ genState' = "done"
    /\ exc' = exc
    /\ UNCHANGED <<agentVars, stopVars, registryVars, auxVars>>

NextTracer ==
    \/ \E explicit \in ExplicitParents : TEnter(explicit)
    \/ TExit
    \/ TExitError
    \/ TCatch
    \/ GenNext
    \/ GenYield
    \/ GenReturn
    \/ GenRaise
    \/ GenClose

SpecTracer == Init /\ [][NextTracer]_vars

\* ------------------------------------------------------- span attributes
AttributeKeys == {"k"}
AttributeValues == {"a", "b"}

\* trace.add_attribute(k, v, inheritable=inh) on a span whose scope is open;
\* a key keeps the way it was first set on that span
TAddAttribute(s, k, v, inh) ==
    /\ exc = "none"
    /\ s \in ActiveSpans
    /\ k \in Keys(spans[s].attributes) => (inh <=> k \in Keys(spans[s].inheritable))
    /\ SetT(IF inh THEN AddInheritable(T, s, {<<k, v>>}) ELSE AddAttributes(T, s, {<<k, v>>}))
    /\ lastAdd' = [span |-> s, pair |-> <<k, v>>, inheritable |-> inh, spans |-> Len(spans)]
    /\ UNCHANGED <<clientVars, agentVars, stopVars, registryVars, multiVars, historyVars, turnVars,
                   overrideVars, streamVars,
                   backendVars>>

NextAttributes ==
    \/ TEnter(NoSpan)
    \/ TExit
    \/ \E s \in 1..Len(spans), k \in AttributeKeys, v \in AttributeValues, inh \in BOOLEAN :
          TAddAttribute(s, k, v, inh)

SpecAttributes == Init /\ [][NextAttributes]_vars

\* ------------------------------------------------ the conversation engine
LoopWithoutBound == MaxToolCalls + 2

\* max_converse_iterations = max_successive_tool_invocations + 1
MaxConverseIterations == MaxSuccessiveToolInvocations + 1

\* self._tools: the names registered with the agent
RegisteredTools == {"tool"}

\* the names a model response may carry: a registered one and one that is not
ToolNames == {"tool", "ghost"}

UserInputs == {"", "hello"}

TextBlock == [kind |-> "text", toolUseId |-> 0, name |-> "", status |-> ""]

ToolUseBlock(id, name) == [kind |-> "toolUse", toolUseId |-> id, name |-> name, status |-> ""]

ToolResultStatus(toolError) == IF toolError = "none" THEN "success" ELSE "error"

\* the dict _invoke_tool returns
ToolResultBlock(toolUse, toolError) ==
    [kind |-> "toolResult", toolUseId |-> toolUse.toolUseId, name |-> "",
     status |-> ToolResultStatus(toolError)]

Message(role, content) == [role |-> role, content |-> content]

\* What the model collaborator answers. It keeps its contract: a response
\* carries toolUse blocks exactly when its stopReason is tool_use.
ToolUseResponses ==
    UNION {[1..n -> ToolNames] : n \in 1..MaxTools}

\* a span opened and left again within one call, in context c
Leaf(t, c, name, kv) ==
    Exit(AddAttributes(Enter(t, c, name, NoSpan), Len(t.spans) + 1, kv),
         c, Scope(t, c), "none")

\* BedrockConverseAgent._add_message
AddMessageSpan(t) ==
    Leaf(t, 0, "conversation-history-add",
         {<<"ai.trace.type", "conversation-history-add">>})

\* BedrockConverseAgent.messages
ListMessagesSpan(t) ==
    Leaf(t, 0, "conversation-history-list",
         {<<"ai.trace.type", "conversation-history-list">>})

\* the call leaves the scope of its "converse" span with exception e
RaiseFromConverse(t, e) ==
    /\ SetT(Exit(t, 0, root, e))
    /\ pc' = "raised"
    /\ err' = e

\* converse(user_input): the @traced wrapper opens the span, the body records
\* the conversation on it, rejects an empty input, adds the user message and
\* builds the request
ConverseStart(input) ==
    /\ pc = "idle"
    /\ LET t1 == Enter(T, 0, "converse", NoSpan)
           sc == Scope(T, 0)
           t2 == AddInheritable(
                    AddAttributes(t1, sc.span, {<<"ai.trace.type", "converse">>,
                                                <<"ai.user.input", input>>}),
                    sc.span, {<<"ai.conversation.id", "conversation">>,
                              <<"ai.auth.context", "principal">>})
       IN  /\ root' = sc
           /\ IF input = ""
              THEN /\ SetT(Exit(t2, 0, sc, "ValueError: Missing user input"))
                   /\ pc' = "raised"
                   /\ err' = "ValueError: Missing user input"
                   /\ history' = history
              ELSE /\ SetT(ListMessagesSpan(AddMessageSpan(t2)))
                   /\ pc' = "loop"
                   /\ err' = "none"
                   /\ history' = Append(history, Message("user", <<TextBlock>>))
    /\ iter' = 0
    /\ rounds' = 0
    /\ llmCalls' = 0
    /\ workers' = <<>>
    /\ finished' = <<>>
    /\ UNCHANGED nextToolUseId
    /\ UNCHANGED <<clientVars, stopVars, registryVars, auxVars>>

LlmSpan(t) ==
    AddAttributes(Enter(t, 0, "llm-invocation", NoSpan), Len(t.spans) + 1,
                  {<<"ai.trace.type", "llm-invocation">>})

\* the context a task of the pool runs in: contextvars.copy_context(), taken
\* by the dispatching thread when it submits the task
EmptyContext(t) == NoSpan

CopyContext(t) == t.cur[0]

\* _invoke_tools: one tool call runs inline in the caller's context, several
\* are submitted to the executor, each with a copy of the caller's context
Submit(blocks) ==
    [i \in 1..Len(blocks) |->
        [block |-> blocks[i],
         ctx |-> IF Len(blocks) = 1 THEN 0 ELSE i,
         state |-> "submitted",
         scope |-> NoScope,
         result |-> TextBlock,
         raised |-> "none"]]

\* one turn of the loop up to the decision on stopReason: the model is
\* invoked under an "llm-invocation" span and its message is added
LlmFails ==
    /\ pc = "loop"
    /\ iter < MaxConverseIterations
    /\ LET sc == Scope(T, 0)
           t1 == AddAttributes(LlmSpan(T), sc.span, {<<"ai.llm.response.error", "ClientError">>})
       IN  RaiseFromConverse(Exit(t1, 0, sc, "ClientError"), "ClientError")
    /\ llmCalls' = llmCalls + 1
    /\ UNCHANGED <<history, iter, root, workers, finished, rounds, nextToolUseId>>
    /\ UNCHANGED <<clientVars, stopVars, registryVars, auxVars>>

LlmEndTurn ==
    /\ pc = "loop"
    /\ iter < MaxConverseIterations
    /\ LET sc == Scope(T, 0)
           t1 == AddMessageSpan(Exit(LlmSpan(T), 0, sc, "none"))
           t2 == AddAttributes(t1, root.span, {<<"ai.agent.response", "text">>})
       IN  SetT(Exit(t2, 0, root, "none"))
    /\ history' = Append(history, Message("assistant", <<TextBlock>>))
    /\ pc' = "returned"
    /\ llmCalls' = llmCalls + 1
    /\ UNCHANGED <<iter, root, workers, finished, err, rounds, nextToolUseId>>
    /\ UNCHANGED <<clientVars, stopVars, registryVars, auxVars>>

LlmUnexpected ==
    /\ pc = "loop"
    /\ iter < MaxConverseIterations
    /\ LET sc == Scope(T, 0)
           t1 == AddMessageSpan(Exit(LlmSpan(T), 0, sc, "none"))
       IN  RaiseFromConverse(t1, "Exception: Unexpected LLM response")
    /\ history' = Append(history, Message("assistant", <<TextBlock>>))
    /\ llmCalls' = llmCalls + 1
    /\ UNCHANGED <<iter, root, workers, finished, rounds, nextToolUseId>>
    /\ UNCHANGED <<clientVars, stopVars, registryVars, auxVars>>

LlmToolUse(names) ==
    /\ pc = "loop"
    /\ iter < MaxConverseIterations
    /\ nextToolUseId + Len(names) - 1 <= MaxToolCalls
    /\ LET sc == Scope(T, 0)
           t1 == AddMessageSpan(Exit(LlmSpan(T), 0, sc, "none"))
           blocks == [i \in 1..Len(names) |-> ToolUseBlock(nextToolUseId + i - 1, names[i])]
           w == Submit(blocks)
       IN  /\ SetT([t1 EXCEPT !.cur = [c \in Contexts |->
                        IF c \in {w[i].ctx : i \in 1..Len(w)} \ {0}
                        THEN CopyContext(t1) ELSE t1.cur[c]]])
           /\ history' = Append(history, Message("assistant", blocks))
           /\ workers' = w
    /\ nextToolUseId' = nextToolUseId + Len(names)
    /\ finished' = <<>>
    /\ pc' = "tools"
    /\ rounds' = rounds + 1
    /\ llmCalls' = llmCalls + 1
    /\ UNCHANGED <<iter, root, err>>
    /\ UNCHANGED <<clientVars, stopVars, registryVars, auxVars>>

\* _invoke_tool up to the call of the tool: the span of the tool call is
\* opened in the context the task runs in
WorkerStart(i) ==
    /\ pc = "tools"
    /\ workers[i].state = "submitted"
    /\ LET c == workers[i].ctx
           b == workers[i].block
           sc == Scope(T, c)
       IN  /\ SetT(AddAttributes(Enter(T, c, b.name, NoSpan), sc.span,
                                 {<<"peer.service", b.name>>,
                                  <<"ai.trace.type", "tool-invocation">>,
                                  <<"ai.tool.name", b.name>>,
                                  <<"ai.tool.use.id", ToString(b.toolUseId)>>,
                                  <<"ai.tool.input", "input">>}))
           /\ workers' = [workers EXCEPT ![i].state = "running", ![i].scope = sc]
    /\ UNCHANGED <<pc, history, iter, root, finished, err, rounds, llmCalls, nextToolUseId>>
    /\ UNCHANGED <<clientVars, stopVars, registryVars, auxVars>>

\* what invoking the tool named in a toolUse block comes to: the lookup fails
\* for an unregistered name, a registered tool returns or raises
ToolOutcomes(name) ==
    IF name \in RegisteredTools THEN {"none", "ToolError"}
    ELSE {"ValueError: Unknown tool"}

\* except Exception as err: around the lookup and the call
ToolErrorCaught(e) == e \in {"ToolError", "ValueError: Unknown tool"}

\* the rest of _invoke_tool: the outcome is recorded on the span and turned
\* into a tool result; the span's scope is left
WorkerFinish(i, e) ==
    /\ pc = "tools"
    /\ workers[i].state = "running"
    /\ e \in ToolOutcomes(workers[i].block.name)
    /\ LET c == workers[i].ctx
           sc == workers[i].scope
       IN  IF e = "none" \/ ToolErrorCaught(e)
           THEN /\ SetT(Exit(AddAttributes(T, sc.span,
                                IF e = "none" THEN {<<"ai.tool.output", "value">>}
                                ELSE {<<"ai.tool.error", e>>}),
                             c, sc, "none"))
                /\ workers' = [workers EXCEPT
                                  ![i].state = "done",
                                  ![i].result = ToolResultBlock(workers[i].block, e)]
           ELSE /\ SetT(Exit(T, c, sc, e))
                /\ workers' = [workers EXCEPT ![i].state = "done", ![i].raised = e]
    /\ finished' = Append(finished, i)
    /\ UNCHANGED <<pc, history, iter, root, err, rounds, llmCalls, nextToolUseId>>
    /\ UNCHANGED <<clientVars, stopVars, registryVars, auxVars>>

ResultsInCompletionOrder(w, done) == [k \in 1..Len(done) |-> w[done[k]].result]

\* list(self.executor.map(...)): the results in the order of submission
GatherResults(w, done) == [i \in 1..Len(w) |-> w[i].result]

\* the worker pool's contexts are dropped with the tasks
DiscardContexts(t) == [t EXCEPT !.cur = [c \in Contexts |-> IF c = 0 THEN t.cur[0] ELSE NoSpan]]

\* the dispatch is over: an exception of a task is raised again in the
\* caller; otherwise the results are added as one user message, the request
\* is rebuilt and the loop continues
Collect ==
    /\ pc = "tools"
    /\ \A i \in 1..Len(workers) : workers[i].state = "done"
    /\ LET failed == {i \in 1..Len(workers) : workers[i].raised # "none"}
       IN  IF failed # {}
           THEN /\ RaiseFromConverse(DiscardContexts(T),
                                     workers[CHOOSE i \in failed : \A j \in failed : i <= j].raised)
                /\ UNCHANGED <<history, iter>>
           ELSE /\ SetT(ListMessagesSpan(AddMessageSpan(DiscardContexts(T))))
                /\ history' = Append(history, Message("user", GatherResults(workers, finished)))
                /\ iter' = iter + 1
                /\ pc' = "loop"
                /\ err' = err
    /\ workers' = <<>>
    /\ UNCHANGED <<root, finished, rounds, llmCalls, nextToolUseId>>
    /\ UNCHANGED <<clientVars, stopVars, registryVars, auxVars>>

\* the for loop is exhausted
TooManyInvocations ==
    /\ pc = "loop"
    /\ iter = MaxConverseIterations
    /\ RaiseFromConverse(T, "Exception: Too many successive tool invocations")
    /\ UNCHANGED <<history, iter, root, workers, finished, rounds, llmCalls, nextToolUseId>>
    /\ UNCHANGED <<clientVars, stopVars, registryVars, auxVars>>

Next ==
    \/ \E input \in UserInputs : ConverseStart(input)
    \/ LlmFails
    \/ LlmEndTurn
    \/ LlmUnexpected
    \/ \E names \in ToolUseResponses : LlmToolUse(names)
    \/ \E i \in 1..Len(workers) : WorkerStart(i)
    \/ \E i \in 1..Len(workers), e \in {"none", "ToolError", "ValueError: Unknown tool"} :
          WorkerFinish(i, e)
    \/ Collect
    \/ TooManyInvocations

Spec == Init /\ [][Next]_vars

\* the same, with every model call and every tool call returning: a step of
\* the call that can be taken is taken
SpecReturning == Init /\ [][Next]_vars /\ WF_vars(Next)

\* ------------------------------------------------------ agents as tools
\* the agents: a supervisor, and subordinates registered with it as tools;
\* "b" is also registered with "a", so that it is reused from two callers
SubAgents == [supervisor |-> {"a", "b"}, a |-> {"b"}, b |-> {}]

NoSubcontext == "None"

SubcontextIdOfAgent(agent, n) == agent

\* the subcontext id of the n-th conversation started with a subordinate
SubcontextId(agent, n) == agent \o "/" \o ToString(n)

TimesInvoked(agent) ==
    Cardinality({i \in 1..Len(invocations) : invocations[i].agent = agent})

\* InMemoryTracer.get_traces: the persisted spans that carry every pair of
\* the attribute filter, in the order they were started; trace_id is not
\* looked at
GetTraces(t, trace_id, attribute_filter) ==
    {s \in {t.persisted[i] : i \in 1..Len(t.persisted)} :
        attribute_filter \subseteq AttributesOf(t, s)}

ConversationFilter ==
    {<<"ai.conversation.id", "conversation">>, <<"ai.auth.context", "principal">>}

\* agent.traces, for the supervisor
TracesOfConversation(t) == GetTraces(t, 0, ConversationFilter)

\* agent.traces after agent.set_conversation_id(conversation_id, subcontext_id=sub)
TracesOfSubcontext(t, sub) ==
    GetTraces(t, 0, ConversationFilter \cup {<<"ai.subcontext.id", sub>>})

\* the root span of a conversation: "converse", with the conversation's
\* identity as inheritable attributes
ConversationRoot(t, agent, sub) ==
    AddInheritable(
        AddAttributes(Enter(t, 0, "converse", NoSpan), Len(t.spans) + 1,
                      {<<"ai.trace.type", "converse">>, <<"ai.agent.name", agent>>}),
        Len(t.spans) + 1,
        ConversationFilter \cup {<<"ai.subcontext.id", sub>>})

\* supervisor.converse(...)
SupervisorStart ==
    /\ invocations = <<>>
    /\ SetT(ConversationRoot(T, "supervisor", NoSubcontext))
    /\ invocations' = <<[agent |-> "supervisor", caller |-> 0, subcontext |-> NoSubcontext,
                         tool |-> NoScope, root |-> Scope(T, 0),
                         spans |-> {Len(spans) + 1}, state |-> "running"]>>
    /\ callStack' = <<1>>
    /\ UNCHANGED <<clientVars, agentVars, stopVars, registryVars, attrVars, historyVars, turnVars,
                   overrideVars, streamVars,
                   backendVars>>

\* the conversation in progress invokes the subordinate `agent` as a tool:
\* its tool-invocation span records the subcontext id given to the
\* subordinate, whose conversation starts under that span
InvokeSubAgent(agent) ==
    /\ callStack # <<>>
    /\ Len(invocations) < MaxInvocations
    /\ LET me == callStack[Len(callStack)]
           sub == SubcontextId(agent, TimesInvoked(agent) + 1)
           toolScope == Scope(T, 0)
           t1 == AddAttributes(Enter(T, 0, agent, NoSpan), toolScope.span,
                               {<<"ai.trace.type", "tool-invocation">>,
                                <<"ai.tool.name", agent>>,
                                <<"ai.tool.subagent.subcontext.id", sub>>})
           t2 == ConversationRoot(t1, agent, sub)
       IN  /\ agent \in SubAgents[invocations[me].agent]
           /\ SetT(t2)
           /\ invocations' =
                 Append([invocations EXCEPT ![me].spans = @ \cup {toolScope.span}],
                        [agent |-> agent, caller |-> me, subcontext |-> sub,
                         tool |-> toolScope, root |-> Scope(t1, 0),
                         spans |-> {Len(t1.spans) + 1}, state |-> "running"])
           /\ callStack' = Append(callStack, Len(invocations) + 1)
    /\ UNCHANGED <<clientVars, agentVars, stopVars, registryVars, attrVars, historyVars, turnVars,
                   overrideVars, streamVars,
                   backendVars>>

\* the conversation in progress invokes its model: an "llm-invocation" span
InvocationWorks ==
    /\ callStack # <<>>
    /\ LET me == callStack[Len(callStack)]
       IN  /\ Cardinality(invocations[me].spans) < MaxInvocationSpans
           /\ SetT(Exit(LlmSpan(T), 0, Scope(T, 0), "none"))
           /\ invocations' = [invocations EXCEPT ![me].spans = @ \cup {Len(spans) + 1}]
    /\ UNCHANGED callStack
    /\ UNCHANGED <<clientVars, agentVars, stopVars, registryVars, attrVars, historyVars, turnVars,
                   overrideVars, streamVars,
                   backendVars>>

\* the conversation in progress ends: its root span is left and, for a
\* subordinate, the tool-invocation span of its caller
InvocationReturns ==
    /\ callStack # <<>>
    /\ LET me == callStack[Len(callStack)]
           t1 == Exit(T, 0, invocations[me].root, "none")
       IN  /\ SetT(IF invocations[me].caller = 0 THEN t1
                   ELSE Exit(t1, 0, invocations[me].tool, "none"))
           /\ invocations' = [invocations EXCEPT ![me].state = "returned"]
    /\ callStack' = SubSeq(callStack, 1, Len(callStack) - 1)
    /\ UNCHANGED <<clientVars, agentVars, stopVars, registryVars, attrVars, historyVars, turnVars,
                   overrideVars, streamVars,
                   backendVars>>

NextMultiAgent ==
    \/ SupervisorStart
    \/ \E agent \in {"a", "b"} : InvokeSubAgent(agent)
    \/ InvocationWorks
    \/ InvocationReturns

SpecMultiAgent == Init /\ [][NextMultiAgent]_vars

\* --------------------------------------------- stored conversation history
ToolUseIds == {1, 2}

\* content blocks of a stored message
Text(text) == [kind |-> "text", toolUseId |-> 0, status |-> "", text |-> text]

ToolUse(id) == [kind |-> "toolUse", toolUseId |-> id, status |-> "", text |-> ""]

ToolResult(id, status, text) ==
    [kind |-> "toolResult", toolUseId |-> id, status |-> status, text |-> text]

\* the synthetic result of a tool use whose result was never stored
MissingToolResult(id) == ToolResult(id, "error", "Failed to get tool result")

RECURSIVE InOrder(_)
InOrder(ids) ==
    IF ids = {} THEN <<>>
    ELSE LET least == CHOOSE i \in ids : \A j \in ids : i <= j
         IN  <<least>> \o InOrder(ids \ {least})

ToolResultOk(id) == ToolResult(id, "success", "result")

Blocks(k, ids) ==
    [i \in 1..Cardinality(ids) |->
        IF k = "toolUse" THEN ToolUse(InOrder(ids)[i]) ELSE ToolResultOk(InOrder(ids)[i])]

\* the contents a message can have: an optional text, then blocks for ids
Contents(k, idSets) ==
    {txt \o Blocks(k, ids) : txt \in {<<>>, <<Text("text")>>}, ids \in idSets} \ {<<>>}

RECURSIVE Flat(_)
Flat(msgs) ==
    IF msgs = <<>> THEN <<>> ELSE msgs[1].content \o Flat(Tail(msgs))

IdsOf(blocks, k) ==
    {blocks[i].toolUseId : i \in {j \in 1..Len(blocks) : blocks[j].kind = k}}

ToolUsesOf(msgs) == IdsOf(Flat(msgs), "toolUse")

ToolResultsOf(msgs) == IdsOf(Flat(msgs), "toolResult")

\* the tool uses whose result is looked for only in the message that follows
MissingInFollowingMessage(msgs) ==
    {id \in ToolUsesOf(msgs) :
        \E i \in 1..Len(msgs) :
            /\ id \in IdsOf(msgs[i].content, "toolUse")
            /\ (i = Len(msgs) \/ id \notin IdsOf(msgs[i + 1].content, "toolResult"))}

\* the tool uses of a history that have no tool result in it
MissingToolUseIds(msgs) == ToolUsesOf(msgs) \ ToolResultsOf(msgs)

LastUserMessage(msgs) ==
    LET users == {i \in 1..Len(msgs) : msgs[i].role = "user"}
    IN  CHOOSE i \in users : \A j \in users : j <= i

\* the missing ids in the order their tool uses appear in the history
MissingInHistoryOrder(msgs) ==
    SelectSeq([i \in 1..Len(Flat(msgs)) |->
                  IF Flat(msgs)[i].kind = "toolUse" THEN Flat(msgs)[i].toolUseId ELSE 0],
              LAMBDA id : id \in MissingToolUseIds(msgs))

\* BedrockConverseAgent.add_missing_tool_results: a history with nothing
\* missing is returned as it is; otherwise the error results are added to
\* the content of the last user message, and no message is added
AddMissingToolResults(msgs) ==
    IF MissingToolUseIds(msgs) = {} THEN msgs
    ELSE [msgs EXCEPT ![LastUserMessage(msgs)].content =
             @ \o [i \in 1..Len(MissingInHistoryOrder(msgs)) |->
                      MissingToolResult(MissingInHistoryOrder(msgs)[i])]]

HasToolUse(m) == IdsOf(m.content, "toolUse") # {}

CompletesTurnByFirstBlock(m) == m.role = "assistant" /\ m.content[1].kind # "toolUse"

\* an assistant message that completes a turn: one without a toolUse block
CompletesTurn(m) == m.role = "assistant" /\ ~HasToolUse(m)

\* BedrockConverseAgent._calculate_turn_nr: one pass over the messages
RECURSIVE TurnNr(_)
TurnNr(msgs) ==
    IF msgs = <<>> THEN 0
    ELSE TurnNr(Tail(msgs)) + (IF CompletesTurn(msgs[1]) THEN 1 ELSE 0)

\* a user message is stored: text, and results for tool uses stored before
StoreUserMessage(content) ==
    /\ Len(messages) < MaxMessages
    /\ IF Len(messages) = 0 THEN TRUE ELSE messages[Len(messages)].role = "assistant"
    /\ content \in Contents("toolResult", SUBSET MissingToolUseIds(messages))
    /\ messages' = Append(messages, Message("user", content))
    /\ turn_nr' = TurnNr(messages')
    /\ UNCHANGED lastRepair
    /\ UNCHANGED <<tracerVars, clientVars, agentVars, stopVars, registryVars, attrVars, multiVars, turnVars,
                   overrideVars, streamVars,
                   backendVars>>

\* an assistant message is stored: text, and tool uses with fresh ids
StoreAssistantMessage(content) ==
    /\ Len(messages) < MaxMessages
    /\ IF Len(messages) = 0 THEN FALSE ELSE messages[Len(messages)].role = "user"
    /\ content \in Contents("toolUse", SUBSET (ToolUseIds \ ToolUsesOf(messages)))
    /\ messages' = Append(messages, Message("assistant", content))
    /\ turn_nr' = TurnNr(messages')
    /\ UNCHANGED lastRepair
    /\ UNCHANGED <<tracerVars, clientVars, agentVars, stopVars, registryVars, attrVars, multiVars, turnVars,
                   overrideVars, streamVars,
                   backendVars>>

\* the history is repaired, as before a request is sent
Repair ==
    /\ Len(messages) > 0
    /\ lastRepair' = [done |-> TRUE, input |-> messages,
                      output |-> AddMissingToolResults(messages)]
    /\ messages' = AddMissingToolResults(messages)
    /\ turn_nr' = TurnNr(messages')
    /\ UNCHANGED <<tracerVars, clientVars, agentVars, stopVars, registryVars, attrVars, multiVars, turnVars,
                   overrideVars, streamVars,
                   backendVars>>

MessageContents ==
    Contents("toolResult", SUBSET ToolUseIds) \cup Contents("toolUse", SUBSET ToolUseIds)

NextHistory ==
    \/ \E content \in MessageContents : StoreUserMessage(content)
    \/ \E content \in MessageContents : StoreAssistantMessage(content)
    \/ Repair

SpecHistory == Init /\ [][NextHistory]_vars

\* ------------------------------------------------------ turns and cycles
Running == turns # <<>> /\ turns[Len(turns)] = "running"

EndTurn(outcome) == [turns EXCEPT ![Len(turns)] = outcome]

\* converse(user_input): the user's message is stored and the loop begins
TurnStart ==
    /\ ~Running
    /\ Len(turns) < MaxTurns
    /\ turns' = Append(turns, "running")
    /\ messages' = Append(messages, Message("user", <<Text("text")>>))
    /\ cycle_nr' = 0
    /\ UNCHANGED <<turn_nr, contexts, lastRepair>>
    /\ UNCHANGED <<tracerVars, clientVars, agentVars, stopVars, registryVars, attrVars, multiVars, overrideVars,
                   streamVars,
                   backendVars>>

\* the context built for the model invocation of this cycle
AgentContext == [turn |-> Len(turns), cycle_nr |-> cycle_nr, turn_nr |-> TurnNr(messages)]

SameCycle(c) == c

\* the loop goes round after the tool results were stored
NextCycle(c) == c + 1

\* one pass of the loop: the model is invoked with a fresh context and
\* either fails, or ends the turn, or asks for a tool whose result is stored
ModelFails ==
    /\ Running
    /\ cycle_nr < MaxConverseIterations
    /\ contexts' = Append(contexts, AgentContext)
    /\ turn_nr' = AgentContext.turn_nr
    /\ turns' = EndTurn("error")
    /\ UNCHANGED <<messages, cycle_nr, lastRepair>>
    /\ UNCHANGED <<tracerVars, clientVars, agentVars, stopVars, registryVars, attrVars, multiVars, overrideVars,
                   streamVars,
                   backendVars>>

ModelEndsTurn ==
    /\ Running
    /\ cycle_nr < MaxConverseIterations
    /\ contexts' = Append(contexts, AgentContext)
    /\ turn_nr' = AgentContext.turn_nr
    /\ messages' = Append(messages, Message("assistant", <<Text("text")>>))
    /\ turns' = EndTurn("completed")
    /\ UNCHANGED <<cycle_nr, lastRepair>>
    /\ UNCHANGED <<tracerVars, clientVars, agentVars, stopVars, registryVars, attrVars, multiVars, overrideVars,
                   streamVars,
                   backendVars>>

ModelUsesTool(withText) ==
    /\ Running
    /\ cycle_nr < MaxConverseIterations
    /\ contexts' = Append(contexts, AgentContext)
    /\ turn_nr' = AgentContext.turn_nr
    /\ LET id == Len(messages)
           uses == (IF withText THEN <<Text("text")>> ELSE <<>>) \o <<ToolUse(id)>>
       IN  messages' = messages \o <<Message("assistant", uses),
                                     Message("user", <<ToolResultOk(id)>>)>>
    /\ cycle_nr' = NextCycle(cycle_nr)
    /\ UNCHANGED <<turns, lastRepair>>
    /\ UNCHANGED <<tracerVars, clientVars, agentVars, stopVars, registryVars, attrVars, multiVars, overrideVars,
                   streamVars,
                   backendVars>>

\* the loop is exhausted: "Too many successive tool invocations"
TooManyCycles ==
    /\ Running
    /\ cycle_nr = MaxConverseIterations
    /\ turns' = EndTurn("error")
    /\ UNCHANGED <<messages, cycle_nr, contexts, turn_nr, lastRepair>>
    /\ UNCHANGED <<tracerVars, clientVars, agentVars, stopVars, registryVars, attrVars, multiVars, overrideVars,
                   streamVars,
                   backendVars>>

NextTurns ==
    \/ TurnStart
    \/ ModelFails
    \/ ModelEndsTurn
    \/ \E withText \in BOOLEAN : ModelUsesTool(withText)
    \/ TooManyCycles

SpecTurns == Init /\ [][NextTurns]_vars

\* ------------------------------------- overriding converse / converse_stream
Fragments == {"a", "b"}

FragmentLists == UNION {[1..n -> Fragments] : n \in 0..MaxFragments}

Texts == {"", "b", "ab"}

\* "".join(fragments)
RECURSIVE Join(_)
Join(fragments) ==
    IF fragments = <<>> THEN "" ELSE Head(fragments) \o Join(Tail(fragments))

\* class Sub(BedrockConverseAgent) with its own converse, converse_stream or both
DefineSubclass(overrides, text, fragments) ==
    /\ subclass = NoSubclass
    /\ overrides # {}
    /\ subclass' = [overrides |-> overrides,
                    text |-> IF "converse" \in overrides THEN text ELSE "",
                    fragments |-> IF "converse_stream" \in overrides THEN fragments ELSE <<>>]
    /\ UNCHANGED <<returned, stream>>
    /\ UNCHANGED <<tracerVars, clientVars, agentVars, stopVars, registryVars, attrVars, multiVars,
                   historyVars, turnVars, streamVars,
                   backendVars>>

\* type(self).converse is BedrockConverseAgent.converse and
\* type(self).converse_stream is not BedrockConverseAgent.converse_stream
ConverseDelegates == subclass.overrides = {"converse_stream"}

\* type(self).converse_stream is BedrockConverseAgent.converse_stream and
\* type(self).converse is not BedrockConverseAgent.converse
ConverseStreamDelegates == subclass.overrides = {"converse"}

\* agent.converse(user_input): the subclass's method, or the base method,
\* which returns "".join(self.converse_stream(user_input, tools=tools))
CallConverse ==
    /\ subclass # NoSubclass
    /\ returned' = [done |-> TRUE,
                    value |-> IF ConverseDelegates THEN Join(subclass.fragments)
                              ELSE subclass.text]
    /\ UNCHANGED <<subclass, stream>>
    /\ UNCHANGED <<tracerVars, clientVars, agentVars, stopVars, registryVars, attrVars, multiVars,
                   historyVars, turnVars, streamVars,
                   backendVars>>

\* agent.converse_stream(user_input): the subclass's iterable, or the
\* generator of the base method, of which nothing has run yet
CallConverseStream ==
    /\ subclass # NoSubclass
    /\ stream' = [of |-> IF ConverseStreamDelegates THEN "base" ELSE "subclass",
                  rest |-> subclass.fragments, yielded |-> <<>>, done |-> FALSE, value |-> ""]
    /\ UNCHANGED <<subclass, returned>>
    /\ UNCHANGED <<tracerVars, clientVars, agentVars, stopVars, registryVars, attrVars, multiVars,
                   historyVars, turnVars, streamVars,
                   backendVars>>

\* return self.converse(user_input, tools=tools) in a generator function:
\* the generator ends, the value goes into StopIteration and nothing is
\* yielded; generator_wrapper passes it on with return (yield from res)
ReturnInGenerator(text) == <<>>

\* next(iterator), as a for loop or "".join does it
StreamNext ==
    /\ stream.of # "none"
    /\ ~stream.done
    /\ IF stream.of = "base"
       THEN stream' = [stream EXCEPT !.yielded = @ \o ReturnInGenerator(subclass.text),
                                     !.value = subclass.text,
                                     !.done = TRUE]
       ELSE IF stream.rest = <<>>
            THEN stream' = [stream EXCEPT !.done = TRUE]
            ELSE stream' = [stream EXCEPT !.yielded = Append(@, Head(stream.rest)),
                                          !.rest = Tail(@)]
    /\ UNCHANGED <<subclass, returned>>
    /\ UNCHANGED <<tracerVars, clientVars, agentVars, stopVars, registryVars, attrVars, multiVars,
                   historyVars, turnVars, streamVars,
                   backendVars>>

NextOverride ==
    \/ \E overrides \in SUBSET {"converse", "converse_stream"}, text \in Texts,
          fragments \in FragmentLists : DefineSubclass(overrides, text, fragments)
    \/ CallConverse
    \/ CallConverseStream
    \/ StreamNext

SpecOverride == Init /\ [][NextOverride]_vars

\* ------------------------------------------- assembling a response stream
\* the kinds of payload of a contentBlockDelta: {"text": ...},
\* {"reasoningContent": {"text": ...}}, {"toolUse": {"input": ...}}
DeltaKinds == {"text", "reasoningContent", "toolUse"}

\* pieces of the JSON texts {} and {"k":1}
InputPieces == {"", "{", "}", "{\"k\":", "1}"}

Payloads(k) == IF k = "toolUse" THEN InputPieces ELSE {"a", "b"}

IsJson(text) == text \in {"{}", "{\"k\":1}"}

\* json.loads, to an object as its set of members
JsonLoads(text) == IF text = "{\"k\":1}" THEN {<<"k", 1>>} ELSE {}

\* a content block: what its dict holds under the key that is its kind
Block(k, text, hasText) ==
    [kind |-> k, text |-> text, hasText |-> hasText, input |-> {}, parsed |-> FALSE]

Established == Len(content_blocks)

Received(type, index, k, payload, raised) ==
    Append(events, [type |-> type, index |-> index, kind |-> k, payload |-> payload,
                    established |-> IF index < Established
                                    THEN content_blocks[index + 1].kind ELSE "none",
                    raised |-> raised])

\* {"contentBlockStart": {"start": {"toolUse": {"toolUseId": .., "name": ..}}}}:
\* the start is appended as the block; it has no "input" yet
ContentBlockStart ==
    /\ streamState = "streaming"
    /\ Len(events) < MaxEvents
    /\ content_blocks' = Append(content_blocks, Block("toolUse", "", FALSE))
    /\ events' = Received("start", Established, "toolUse", "", FALSE)
    /\ UNCHANGED <<streamState, stop_reason, metadata, yielded>>
    /\ UNCHANGED <<tracerVars, clientVars, agentVars, stopVars, registryVars, attrVars, multiVars,
                   historyVars, turnVars, overrideVars,
                   backendVars>>

PrependDelta(text, payload) == payload \o text

\* content_block["text"] += delta["text"], and the same for the input
AppendDelta(text, payload) == text \o payload

\* update_content_block: what it raises, if anything
UpdateRaises(index, k) ==
    IF index >= Established THEN "none"
    ELSE IF k = "text" /\ content_blocks[index + 1].kind # "text"
         THEN "ValueError: Expect existing text content block"
    ELSE IF k = "toolUse" /\ content_blocks[index + 1].kind # "toolUse"
         THEN "ValueError: Expect existing toolUse content block"
    ELSE "none"

\* update_content_block: the blocks after a delta that raises nothing. A
\* delta for an index without a block is appended as the block; a text or
\* toolUse delta for a block is added to it; any other delta for a block
\* falls through both branches
UpdateContentBlock(index, k, payload) ==
    IF index >= Established
    THEN Append(content_blocks, Block(k, payload, TRUE))
    ELSE IF k \in {"text", "toolUse"}
         THEN [content_blocks EXCEPT ![index + 1].text = AppendDelta(@, payload),
                                     ![index + 1].hasText = TRUE]
         ELSE content_blocks

AnyTextOfDelta(k, payload) == IF k = "toolUse" THEN "" ELSE payload

\* stream_event["contentBlockDelta"]["delta"].get("text")
TextOfDelta(k, payload) == IF k = "text" THEN payload ELSE ""

\* {"contentBlockDelta": {"contentBlockIndex": index, "delta": {k: payload}}}:
\* the block is updated and then the delta's text, if any, is yielded
ContentBlockDelta(index, k, payload) ==
    /\ streamState = "streaming"
    /\ stop_reason = ""
    /\ Len(events) < MaxEvents
    /\ index <= Established
    /\ payload \in Payloads(k)
    /\ events' = Received("delta", index, k, payload, UpdateRaises(index, k) # "none")
    /\ IF UpdateRaises(index, k) # "none"
       THEN /\ streamState' = UpdateRaises(index, k)
            /\ UNCHANGED <<content_blocks, yielded>>
       ELSE /\ content_blocks' = UpdateContentBlock(index, k, payload)
            /\ yielded' = IF TextOfDelta(k, payload) # ""
                          THEN Append(yielded, TextOfDelta(k, payload)) ELSE yielded
            /\ UNCHANGED streamState
    /\ UNCHANGED <<stop_reason, metadata>>
    /\ UNCHANGED <<tracerVars, clientVars, agentVars, stopVars, registryVars, attrVars, multiVars,
                   historyVars, turnVars, overrideVars,
                   backendVars>>

ToolUseBlocks == {i \in 1..Established : content_blocks[i].kind = "toolUse"}

\* {"messageStop": {"stopReason": reason}}: a newline is yielded
MessageStop(reason) ==
    /\ streamState = "streaming"
    /\ stop_reason = ""
    /\ stop_reason' = reason
    /\ yielded' = Append(yielded, "\n")
    /\ UNCHANGED <<content_blocks, events, streamState, metadata>>
    /\ UNCHANGED <<tracerVars, clientVars, agentVars, stopVars, registryVars, attrVars, multiVars,
                   historyVars, turnVars, overrideVars,
                   backendVars>>

\* {"metadata": {"usage": .., "metrics": ..}}
Metadata ==
    /\ streamState = "streaming"
    /\ stop_reason # ""
    /\ ~metadata
    /\ metadata' = TRUE
    /\ UNCHANGED <<content_blocks, events, streamState, stop_reason, yielded>>
    /\ UNCHANGED <<tracerVars, clientVars, agentVars, stopVars, registryVars, attrVars, multiVars,
                   historyVars, turnVars, overrideVars,
                   backendVars>>

CompleteAnyway(meta, reason) == "none"

\* if not metadata: raise ValueError(..); if not stop_reason: raise ValueError(..)
Incomplete(meta, reason) ==
    IF ~meta THEN "ValueError: Incomplete response stream: missing metadata"
    ELSE IF reason = "" THEN "ValueError: Incomplete response stream: missing stop_reason"
    ELSE "none"

\* the stream is exhausted: an incomplete stream is refused; otherwise the
\* input of every toolUse block is parsed, json.loads(str(tool_input)) if
\* tool_input else {}, and the message is added to the history
StreamEnds ==
    /\ streamState = "streaming"
    /\ IF Incomplete(metadata, stop_reason) # "none"
       THEN /\ streamState' = Incomplete(metadata, stop_reason)
            /\ UNCHANGED content_blocks
       ELSE IF \E i \in ToolUseBlocks : ~content_blocks[i].hasText
       THEN /\ streamState' = "KeyError: 'input'"
            /\ UNCHANGED content_blocks
       ELSE IF \E i \in ToolUseBlocks :
                  content_blocks[i].text # "" /\ ~IsJson(content_blocks[i].text)
       THEN /\ streamState' = "JSONDecodeError"
            /\ UNCHANGED content_blocks
       ELSE /\ streamState' = "assembled"
            /\ content_blocks' =
                  [i \in 1..Established |->
                      IF i \in ToolUseBlocks
                      THEN [content_blocks[i] EXCEPT
                               !.input = IF content_blocks[i].text # ""
                                         THEN JsonLoads(content_blocks[i].text) ELSE {},
                               !.parsed = TRUE]
                      ELSE content_blocks[i]]
    /\ UNCHANGED <<events, stop_reason, metadata, yielded>>
    /\ UNCHANGED <<tracerVars, clientVars, agentVars, stopVars, registryVars, attrVars, multiVars,
                   historyVars, turnVars, overrideVars,
                   backendVars>>

\* the texts of the text blocks of a message, as converse collects them
TextsOf(blocks) ==
    LET texts == SelectSeq(blocks, LAMBDA b : b.kind = "text")
    IN  [i \in 1..Len(texts) |-> texts[i].text]

\* "\n".join(texts)
RECURSIVE JoinLines(_)
JoinLines(texts) ==
    IF texts = <<>> THEN ""
    ELSE IF Len(texts) = 1 THEN texts[1]
    ELSE texts[1] \o "\n" \o JoinLines(Tail(texts))

\* what converse returns for a response that ends the turn
ConverseText(blocks) == JoinLines(TextsOf(blocks))

NextStream ==
    \/ ContentBlockStart
    \/ \E index \in 0..MaxEvents, k \in DeltaKinds, payload \in InputPieces \cup {"a", "b"} :
          ContentBlockDelta(index, k, payload)
    \/ \E reason \in {"end_turn", "tool_use"} : MessageStop(reason)
    \/ Metadata
    \/ StreamEnds

SpecStream == Init /\ [][NextStream]_vars

\* ------------------------------------------------------ the InMemoryTracer
\* trace.attributes of the spans that are persisted: None is a value, and
\* differs from the key not being there
SpanAttributes ==
    {{<<"j", "x">>}, {<<"k", "None">>, <<"j", "x">>}, {<<"k", "x">>}}

\* what attribute_filter can be; {} stands for None and for the empty dict
AttributeFilters ==
    {{}, {<<"k", "None">>}, {<<"k", "None">>, <<"j", "x">>}, {<<"k", "x">>, <<"j", "x">>}}

TraceIds == {1, 2}

StartTimes == {1, 2}

KeptWhenFull(mem, span) == IF Len(mem) < MemorySize THEN Append(mem, span) ELSE mem

\* deque(maxlen=memory_size).append: when full, the oldest is discarded
DequeAppend(mem, span) ==
    IF MemorySize = 0 THEN <<>>
    ELSE IF Len(mem) < MemorySize THEN Append(mem, span)
    ELSE Append(Tail(mem), span)

\* InMemoryTracer.persist(trace)
PersistSpan(trace_id, started_at, attributes) ==
    /\ persists < MaxPersists
    /\ persists' = persists + 1
    /\ memory' = DequeAppend(memory, [span_id |-> persists + 1, trace_id |-> trace_id,
                                      started_at |-> started_at, attributes |-> attributes])
    /\ lastQuery' = NoQuery
    /\ UNCHANGED <<frontVars, teeVars, queueVars, lateVars>>

MatchesWithGet(attributes, attribute_filter) ==
    \A p \in attribute_filter :
        \/ p \in attributes
        \/ (p[2] = "None" /\ p[1] \notin Keys(attributes))

\* all(k in trace.attributes and trace.attributes[k] == v for k, v in ...)
Matches(attributes, attribute_filter) ==
    \A p \in attribute_filter : p[1] \in Keys(attributes) /\ p \in attributes

Unsorted(mem) == mem

\* sorted(self._memory, key=lambda t: t.started_at): stable
RECURSIVE SortedByStartedAt(_)
SortedByStartedAt(mem) ==
    IF mem = <<>> THEN <<>>
    ELSE LET rest == SortedByStartedAt(SubSeq(mem, 1, Len(mem) - 1))
             last == mem[Len(mem)]
         IN  SelectSeq(rest, LAMBDA t : t.started_at <= last.started_at)
             \o <<last>>
             \o SelectSeq(rest, LAMBDA t : t.started_at > last.started_at)

\* InMemoryTracer.get_traces(trace_id, attribute_filter): every span when
\* there is no filter, else the spans the filter matches; trace_id is not
\* looked at
InMemoryGetTraces(mem, trace_id, attribute_filter) ==
    SelectSeq(SortedByStartedAt(mem),
              LAMBDA t : attribute_filter = {} \/ Matches(t.attributes, attribute_filter))

\* tracer.get_traces(trace_id=.., attribute_filter=..); 0 is trace_id=None
QueryTraces(trace_id, attribute_filter) ==
    /\ lastQuery' = [done |-> TRUE, trace_id |-> trace_id,
                     attribute_filter |-> attribute_filter,
                     result |-> InMemoryGetTraces(memory, trace_id, attribute_filter),
                     raised |-> "none"]
    /\ UNCHANGED <<memory, persists>>
    /\ UNCHANGED <<frontVars, teeVars, queueVars, lateVars>>

NextStore ==
    \/ \E trace_id \in TraceIds, started_at \in StartTimes, attributes \in SpanAttributes :
          PersistSpan(trace_id, started_at, attributes)
    \/ \E trace_id \in TraceIds \cup {0}, attribute_filter \in AttributeFilters :
          QueryTraces(trace_id, attribute_filter)

SpecStore == Init /\ [][NextStore]_vars

\* ------------------------------------------------------------ the TeeTracer
\* A TeeTracer holds a list of child tracers. The children here are one
\* InMemoryTracer (its memory is the variable memory), one
\* HumanReadableTracer, which inherits BaseTracer.get_traces and so raises
\* NotImplementedError, and one object that satisfies the Tracer protocol
\* only, keeps no spans and has no snapshot_enabled or persist_snapshot.
Children == {"InMemoryTracer", "HumanReadableTracer", "PlainTracer"}

\* isinstance(tracer, SnapshotCapableTracer)
SnapshotCapable(child) == child # "PlainTracer"

\* list.remove(x): without the first element equal to x
RECURSIVE RemoveFirst(_, _)
RemoveFirst(children, child) ==
    IF children = <<>> THEN <<>>
    ELSE IF Head(children) = child THEN Tail(children)
    ELSE <<Head(children)>> \o RemoveFirst(Tail(children), child)

\* the loop of remove_tracer over the remaining children: it stops at the
\* first snapshot-capable one, and clears the flag at each one before it
RECURSIVE EnabledAfterRemoval(_, _)
EnabledAfterRemoval(remaining, enabled) ==
    IF remaining = <<>> THEN enabled
    ELSE IF SnapshotCapable(Head(remaining)) THEN enabled
    ELSE EnabledAfterRemoval(Tail(remaining), FALSE)

Range(children) == {children[i] : i \in 1..Len(children)}

\* TeeTracer.add_tracer(tracer)
AddTracer(child) ==
    /\ Len(tracers) < MaxTracers
    /\ snapshot_enabled' = IF ~snapshot_enabled /\ SnapshotCapable(child) THEN TRUE
                           ELSE snapshot_enabled
    /\ tracers' = Append(tracers, child)
    /\ teeError' = "none"
    /\ lastQuery' = NoQuery
    /\ UNCHANGED <<memory, persists, temporary, frontVars, queueVars, lateVars>>

\* TeeTracer.remove_tracer(tracer); list.remove raises ValueError when the
\* tracer is not in the list
RemoveTracer(child) ==
    /\ IF child \in Range(tracers)
       THEN /\ tracers' = RemoveFirst(tracers, child)
            /\ snapshot_enabled' = EnabledAfterRemoval(tracers', snapshot_enabled)
            /\ teeError' = "none"
       ELSE /\ teeError' = "ValueError"
            /\ UNCHANGED <<tracers, snapshot_enabled>>
    /\ lastQuery' = NoQuery
    /\ UNCHANGED <<memory, persists, temporary, frontVars, queueVars, lateVars>>

\* with tee.temporary_tracer(tracer): the block is entered
EnterTemporaryTracer(child) ==
    /\ Len(temporary) < MaxTemporary
    /\ Len(tracers) < MaxTracers
    /\ snapshot_enabled' = IF ~snapshot_enabled /\ SnapshotCapable(child) THEN TRUE
                           ELSE snapshot_enabled
    /\ tracers' = Append(tracers, child)
    /\ temporary' = Append(temporary, child)
    /\ teeError' = "none"
    /\ lastQuery' = NoQuery
    /\ UNCHANGED <<memory, persists, frontVars, queueVars, lateVars>>

\* the block of temporary_tracer is left: remove_tracer(tracer) in finally
ExitTemporaryTracer ==
    /\ temporary # <<>>
    /\ LET child == temporary[Len(temporary)]
       IN  IF child \in Range(tracers)
           THEN /\ tracers' = RemoveFirst(tracers, child)
                /\ snapshot_enabled' = EnabledAfterRemoval(tracers', snapshot_enabled)
                /\ teeError' = "none"
           ELSE /\ teeError' = "ValueError"
                /\ UNCHANGED <<tracers, snapshot_enabled>>
    /\ temporary' = SubSeq(temporary, 1, Len(temporary) - 1)
    /\ lastQuery' = NoQuery
    /\ UNCHANGED <<memory, persists, frontVars, queueVars, lateVars>>

\* for tracer in self._tracers: tracer.persist(trace); only the
\* InMemoryTracer keeps the span
RECURSIVE PersistToAll(_, _, _)
PersistToAll(children, mem, span) ==
    IF children = <<>> THEN mem
    ELSE PersistToAll(Tail(children),
                      IF Head(children) = "InMemoryTracer" THEN DequeAppend(mem, span)
                      ELSE mem,
                      span)

\* TeeTracer.persist(trace)
TeePersist(started_at) ==
    /\ persists < MaxPersists
    /\ persists' = persists + 1
    /\ memory' = PersistToAll(tracers, memory,
                              [span_id |-> persists + 1, trace_id |-> 1,
                               started_at |-> started_at, attributes |-> {<<"k", "x">>}])
    /\ teeError' = "none"
    /\ lastQuery' = NoQuery
    /\ UNCHANGED <<tracers, snapshot_enabled, temporary, frontVars, queueVars, lateVars>>

\* child.get_traces(trace_id=.., attribute_filter=..)
ChildGetTraces(child, mem, trace_id, attribute_filter) ==
    [done |-> TRUE, trace_id |-> trace_id, attribute_filter |-> attribute_filter,
     result |-> IF child = "InMemoryTracer"
                THEN InMemoryGetTraces(mem, trace_id, attribute_filter)
                ELSE <<>>,
     raised |-> IF child = "HumanReadableTracer" THEN "NotImplementedError" ELSE "none"]

\* TeeTracer.get_traces(trace_id, attribute_filter)
TeeGetTraces(trace_id, attribute_filter) ==
    /\ lastQuery' = IF tracers = <<>>
                    THEN [done |-> TRUE, trace_id |-> trace_id,
                          attribute_filter |-> attribute_filter,
                          result |-> <<>>, raised |-> "none"]
                    ELSE ChildGetTraces(tracers[1], memory, trace_id, attribute_filter)
    /\ teeError' = lastQuery'.raised
    /\ UNCHANGED <<memory, persists, tracers, snapshot_enabled, temporary, frontVars,
                   queueVars, lateVars>>

NextTee ==
    \/ \E child \in Children : AddTracer(child)
    \/ \E child \in Children : RemoveTracer(child)
    \/ \E child \in Children : EnterTemporaryTracer(child)
    \/ ExitTemporaryTracer
    \/ \E started_at \in StartTimes : TeePersist(started_at)
    \/ \E attribute_filter \in {{}, {<<"k", "x">>}} : TeeGetTraces(1, attribute_filter)

SpecTee == Init /\ [][NextTee]_vars

\* -------------------------------------------- QueueTracer, IterableTracer
\* The tracer puts every span and snapshot on a queue.Queue without size
\* limit; a loop `for trace in tracer` takes them off with queue.get().
\* After queue.shutdown() a put raises ShutDown, and a get raises ShutDown
\* once the queue is empty, also in a consumer that is already blocked.

GetIgnoringShutdown(q, shut) == IF q # <<>> THEN "item" ELSE "block"

\* how queue.get() ends on queue q
GetOutcome(q, shut) ==
    IF q # <<>> THEN "item"
    ELSE IF shut THEN "ShutDown"
    ELSE "block"

\* QueueTracer.persist(trace) and persist_snapshot(trace): queue.put(trace)
QueuePersist ==
    /\ received + Len(queue) < MaxPuts
    /\ IF is_shutdown
       THEN /\ queueError' = "ShutDown"
            /\ UNCHANGED queue
       ELSE /\ queue' = Append(queue, received + Len(queue) + 1)
            /\ queueError' = "none"
    /\ UNCHANGED <<is_shutdown, consumer, received, waits, shutdowns>>
    /\ UNCHANGED <<frontVars, storeVars, teeVars, lateVars>>

\* QueueTracer.shutdown(): queue.shutdown()
Shutdown ==
    /\ shutdowns < MaxShutdowns
    /\ shutdowns' = shutdowns + 1
    /\ is_shutdown' = TRUE
    /\ queueError' = "none"
    /\ UNCHANGED <<queue, consumer, received, waits>>
    /\ UNCHANGED <<frontVars, storeVars, teeVars, lateVars>>

\* QueueTracer.__exit__: shuts the queue down unless it already is
ExitQueueTracer ==
    /\ shutdowns < MaxShutdowns
    /\ shutdowns' = shutdowns + 1
    /\ is_shutdown' = IF ~is_shutdown THEN TRUE ELSE is_shutdown
    /\ queueError' = "none"
    /\ UNCHANGED <<queue, consumer, received, waits>>
    /\ UNCHANGED <<frontVars, storeVars, teeVars, lateVars>>

\* IterableTracer.__iter__, one round of the loop: queue.get() yields the
\* oldest span, or blocks, or raises ShutDown, which the loop catches to
\* break: the iteration ends as an exhausted iterator does
IterNext ==
    /\ consumer = "running"
    /\ LET outcome == GetOutcome(queue, is_shutdown)
       IN  /\ consumer' = IF outcome = "item" THEN "running"
                          ELSE IF outcome = "ShutDown" THEN "done"
                          ELSE "waiting"
           /\ queue' = IF outcome = "item" THEN Tail(queue) ELSE queue
           /\ received' = IF outcome = "item" THEN received + 1 ELSE received
           /\ waits' = IF outcome = "block" THEN waits + 1 ELSE waits
    /\ UNCHANGED <<is_shutdown, shutdowns, queueError>>
    /\ UNCHANGED <<frontVars, storeVars, teeVars, lateVars>>

\* the blocked queue.get() is woken by a put or by the shutdown
IterWakes ==
    /\ consumer = "waiting"
    /\ GetOutcome(queue, is_shutdown) # "block"
    /\ LET outcome == GetOutcome(queue, is_shutdown)
       IN  /\ consumer' = IF outcome = "item" THEN "running" ELSE "done"
           /\ queue' = IF outcome = "item" THEN Tail(queue) ELSE queue
           /\ received' = IF outcome = "item" THEN received + 1 ELSE received
    /\ UNCHANGED <<is_shutdown, waits, shutdowns, queueError>>
    /\ UNCHANGED <<frontVars, storeVars, teeVars, lateVars>>

NextQueue ==
    \/ QueuePersist
    \/ Shutdown
    \/ ExitQueueTracer
    \/ IterNext
    \/ IterWakes

\* the consuming thread keeps running: a round of its loop that can be
\* taken is taken
SpecQueue == Init /\ [][NextQueue]_vars /\ WF_vars(IterNext) /\ WF_vars(IterWakes)

\* ---------------------------------------------------------------- snapshots
\* tracer.trace(..) gives the span a snapshot handler, the tracer's
\* persist_snapshot, when the tracer's snapshot_enabled is set at that moment,
\* and none otherwise. span.emit_snapshot() hands a clone of the span to the
\* handler. The tracer is an InMemoryTracer, or the subclass of it that keeps
\* the snapshots it is given in a list of its own; either keeps the
\* completed spans in memory.

SnapshotStored(mem, span) == DequeAppend(mem, span)

\* what persist_snapshot(span) does to the InMemoryTracer's memory:
\* BaseTracer.persist_snapshot is `pass`, and the subclass appends to its
\* list of snapshots only
SnapshotSink(mem, span) == mem

\* the record of a span as the InMemoryTracer is given it
SpanRecord(span_id) ==
    [span_id |-> span_id, trace_id |-> 1, started_at |-> span_id, attributes |-> {}]

Snapshots == Len(SelectSeq(log, LAMBDA e : e.call = "persist_snapshot"))

\* with tracer.trace(..) as span: the scope is entered
SnapEnter(enabled) ==
    /\ Len(scopes) < MaxDepth
    /\ persists + Len(scopes) < MaxPersists
    /\ scopes' = Append(scopes, [span_id |-> persists + Len(scopes) + 1,
                                 snapshot_handler |-> enabled])
    /\ UNCHANGED <<log, storeVars, frontVars, teeVars, queueVars, raceVars, lazyVars>>

\* span.emit_snapshot() on a span whose scope is open
EmitSnapshot(i) ==
    /\ i \in 1..Len(scopes)
    /\ Snapshots < MaxSnapshots
    /\ IF scopes[i].snapshot_handler
       THEN /\ log' = Append(log, [call |-> "persist_snapshot",
                                   span_id |-> scopes[i].span_id])
            /\ memory' = SnapshotSink(memory, SpanRecord(scopes[i].span_id))
       ELSE UNCHANGED <<log, memory>>
    /\ lastQuery' = NoQuery
    /\ UNCHANGED <<scopes, persists, frontVars, teeVars, queueVars, raceVars, lazyVars>>

\* the innermost scope is left: __exit__ hands the span to persist
SnapExit ==
    /\ scopes # <<>>
    /\ LET span_id == scopes[Len(scopes)].span_id
       IN  /\ log' = Append(log, [call |-> "persist", span_id |-> span_id])
           /\ memory' = DequeAppend(memory, SpanRecord(span_id))
    /\ persists' = persists + 1
    /\ scopes' = SubSeq(scopes, 1, Len(scopes) - 1)
    /\ lastQuery' = NoQuery
    /\ UNCHANGED <<frontVars, teeVars, queueVars, raceVars, lazyVars>>

NextSnapshot ==
    \/ \E enabled \in BOOLEAN : SnapEnter(enabled)
    \/ \E i \in 1..MaxDepth : EmitSnapshot(i)
    \/ SnapExit

SpecSnapshot == Init /\ [][NextSnapshot]_vars

\* ------------------------------------- the InMemoryTracer, several threads
\* persist and get_traces take no lock: persist is one deque.append, and
\* get_traces hands the deque itself to sorted(), which copies it by
\* iterating over it. Where the interpreter runs that copy without letting
\* another thread in, the call is QueryTraces above. Where it does not, an
\* append between two steps of the iteration changes the deque's state
\* counter and the next step raises RuntimeError (deque mutated during
\* iteration). Both builds exist; the model has both outcomes.

\* get_traces starts to iterate over the deque
ReadBegin ==
    /\ ~reader.copying
    /\ reader' = [copying |-> TRUE, state |-> persists, copy |-> <<>>]
    /\ lastQuery' = NoQuery
    /\ UNCHANGED <<memory, persists, frontVars, teeVars, queueVars, snapVars, lazyVars>>

\* the next step of the iteration, and, once the deque is exhausted, the
\* rest of get_traces on the copy
ReadStep ==
    /\ reader.copying
    /\ IF reader.state # persists
       THEN /\ lastQuery' = [done |-> TRUE, trace_id |-> 0, attribute_filter |-> {},
                             result |-> <<>>, raised |-> "RuntimeError"]
            /\ reader' = NoReader
       ELSE IF Len(reader.copy) < Len(memory)
       THEN /\ reader' = [reader EXCEPT !.copy = Append(@, memory[Len(reader.copy) + 1])]
            /\ UNCHANGED lastQuery
       ELSE /\ lastQuery' = [done |-> TRUE, trace_id |-> 0, attribute_filter |-> {},
                             result |-> InMemoryGetTraces(reader.copy, 0, {}),
                             raised |-> "none"]
            /\ reader' = NoReader
    /\ UNCHANGED <<memory, persists, frontVars, teeVars, queueVars, snapVars, lazyVars>>

NextRace ==
    \/ \E started_at \in StartTimes : PersistSpan(1, started_at, {<<"k", "x">>})
    \/ QueryTraces(0, {})
    \/ ReadBegin
    \/ ReadStep

SpecRace == Init /\ [][NextRace]_vars

\* ------------------------------------------- converse_stream, step by step
\* converse_stream is a generator function and @traced wraps it in a
\* generator too: the call returns a generator object and runs nothing. The
\* body runs while the caller is inside next(), from where it was suspended
\* to the next yield.

EagerlyStarted == "running"

\* the state of the generator object right after the call
StateAfterCall == "new"

\* agent.converse_stream(user_input)
CallStream ==
    /\ gen = "none"
    /\ gen' = StateAfterCall
    /\ UNCHANGED <<position, requests, delivered, appended, invoked, dispatched>>
    /\ UNCHANGED <<frontVars, storeVars, teeVars, queueVars, snapVars, raceVars>>

\* next(generator), as the caller's for loop does
NextFragment ==
    /\ gen \in {"new", "suspended"}
    /\ gen' = "running"
    /\ requests' = requests + 1
    /\ UNCHANGED <<position, delivered, appended, invoked, dispatched>>
    /\ UNCHANGED <<frontVars, storeVars, teeVars, queueVars, snapVars, raceVars>>

\* generator.close(), or the generator is dropped: GeneratorExit at the yield
CloseStream ==
    /\ gen \in {"new", "suspended"}
    /\ gen' = "closed"
    /\ UNCHANGED <<position, requests, delivered, appended, invoked, dispatched>>
    /\ UNCHANGED <<frontVars, storeVars, teeVars, queueVars, snapVars, raceVars>>

\* the body up to the loop: without user input the call raises, else the
\* user message is appended
BodyStart(user_input) ==
    /\ gen = "running"
    /\ position = "start"
    /\ IF user_input = ""
       THEN /\ gen' = "done"
            /\ position' = "raised"
            /\ UNCHANGED appended
       ELSE /\ appended' = appended + 1
            /\ position' = "loop"
            /\ UNCHANGED gen
    /\ UNCHANGED <<requests, delivered, invoked, dispatched>>
    /\ UNCHANGED <<frontVars, storeVars, teeVars, queueVars, snapVars, raceVars>>

\* the model call raises ClientError, or the stream ends without its stop
\* reason or metadata: the call raises
StreamFails ==
    /\ gen = "running"
    /\ \/ /\ position = "loop"
          /\ invoked < MaxConverseIterations
          /\ invoked' = invoked + 1
       \/ /\ position = "stream"
          /\ UNCHANGED invoked
    /\ gen' = "done"
    /\ position' = "raised"
    /\ UNCHANGED <<requests, delivered, appended, dispatched>>
    /\ UNCHANGED <<frontVars, storeVars, teeVars, queueVars, snapVars, raceVars>>

\* a round of the loop: bedrock_client.converse_stream(..), or the loop is
\* used up and the call raises
InvokeModel ==
    /\ gen = "running"
    /\ position = "loop"
    /\ IF invoked < MaxConverseIterations
       THEN /\ invoked' = invoked + 1
            /\ position' = "stream"
            /\ UNCHANGED gen
       ELSE /\ gen' = "done"
            /\ UNCHANGED <<invoked, position>>
    /\ UNCHANGED <<requests, delivered, appended, dispatched>>
    /\ UNCHANGED <<frontVars, storeVars, teeVars, queueVars, snapVars, raceVars>>

\* a text delta arrives: yield text
YieldText ==
    /\ gen = "running"
    /\ position = "stream"
    /\ delivered < MaxDelivered
    /\ delivered' = delivered + 1
    /\ gen' = "suspended"
    /\ UNCHANGED <<position, requests, appended, invoked, dispatched>>
    /\ UNCHANGED <<frontVars, storeVars, teeVars, queueVars, snapVars, raceVars>>

\* messageStop arrives: yield "\n"
YieldStop(reason) ==
    /\ gen = "running"
    /\ position = "stream"
    /\ delivered < MaxDelivered
    /\ delivered' = delivered + 1
    /\ gen' = "suspended"
    /\ position' = reason
    /\ UNCHANGED <<requests, appended, invoked, dispatched>>
    /\ UNCHANGED <<frontVars, storeVars, teeVars, queueVars, snapVars, raceVars>>

\* the stream is exhausted: the assistant message is appended; on tool_use
\* the tools are dispatched and their results appended, on end_turn the loop
\* is left
AfterStream ==
    /\ gen = "running"
    /\ position \in {"tool_use", "end_turn"}
    /\ IF position = "tool_use"
       THEN /\ appended' = appended + 2
            /\ dispatched' = dispatched + 1
            /\ position' = "loop"
            /\ UNCHANGED gen
       ELSE /\ appended' = appended + 1
            /\ gen' = "done"
            /\ UNCHANGED <<dispatched, position>>
    /\ UNCHANGED <<requests, delivered, invoked>>
    /\ UNCHANGED <<frontVars, storeVars, teeVars, queueVars, snapVars, raceVars>>

NextLazy ==
    \/ CallStream
    \/ NextFragment
    \/ CloseStream
    \/ \E user_input \in UserInputs : BodyStart(user_input)
    \/ InvokeModel
    \/ StreamFails
    \/ YieldText
    \/ \E reason \in {"tool_use", "end_turn"} : YieldStop(reason)
    \/ AfterStream

SpecLazy == Init /\ [][NextLazy]_vars

\* ------------------------------------------------ cooperative cancellation
\* the error a tool call ends with when the call is given up
StopEventAbortError == "StopEventAbortError()"

\* stop_event.set(), by the consumer of the call, while the call is going on
SetStopEvent ==
    /\ pc \in {"loop", "tools"}
    /\ ~stopEvent
    /\ stopEvent' = TRUE
    /\ outstanding' = {i \in 1..Len(workers) : workers[i].state = "running"}
    /\ UNCHANGED <<tracerVars, clientVars, agentVars, registryVars, auxVars>>

\* the dispatcher stops waiting for a tool call once stop_event is set: the
\* abort is recorded on the span of the call and becomes its result; the
\* tool itself is left running
AbortTool(i) ==
    /\ pc = "tools"
    /\ stopEvent
    /\ workers[i].state = "running"
    /\ LET c == workers[i].ctx
           sc == workers[i].scope
       IN  SetT(Exit(AddAttributes(T, sc.span, {<<"ai.tool.error", StopEventAbortError>>}),
                     c, sc, "none"))
    /\ workers' = [workers EXCEPT
                      ![i].state = "done",
                      ![i].result = ToolResultBlock(workers[i].block, StopEventAbortError)]
    /\ finished' = Append(finished, i)
    /\ UNCHANGED <<pc, history, iter, root, err, rounds, llmCalls, nextToolUseId>>
    /\ UNCHANGED <<clientVars, stopVars, registryVars, auxVars>>

NoAbortedAttribute(stop) == {}

\* what the call puts on its root span when it ends because of stop_event
AbortedAttributes(stop) == IF stop THEN {<<"ai.conversation.aborted", "true">>} ELSE {}

\* the call ends because stop_event is set: no further model invocation, the
\* root span is flagged and its scope is left without an exception
StopReturn ==
    /\ stopEvent
    /\ \/ pc = "loop"
       \/ pc = "tools" /\ \A i \in 1..Len(workers) : workers[i].state = "done"
    /\ SetT(Exit(AddAttributes(DiscardContexts(T), root.span, AbortedAttributes(stopEvent)),
                 0, root, "none"))
    /\ pc' = "returned"
    /\ UNCHANGED <<history, iter, root, workers, finished, err, rounds, llmCalls, nextToolUseId>>
    /\ UNCHANGED <<clientVars, stopVars, registryVars, auxVars>>

NextStop ==
    \/ \E input \in UserInputs : ConverseStart(input)
    \/ \E i \in 1..Len(workers) : WorkerStart(i)
    \/ /\ ~stopEvent
       /\ \/ LlmFails
          \/ LlmEndTurn
          \/ LlmUnexpected
          \/ \E names \in ToolUseResponses : LlmToolUse(names)
          \/ \E i \in 1..Len(workers), e \in {"none", "ToolError", "ValueError: Unknown tool"} :
                WorkerFinish(i, e)
          \/ Collect
          \/ TooManyInvocations
    \/ SetStopEvent
    \/ \E i \in 1..Len(workers) : AbortTool(i)
    \/ StopReturn

SpecStop == Init /\ [][NextStop]_vars



\* ---------------------------------------- the registry of instances in use
\* the class whose _instances_used the lookup self._instances_used finds
OwnerOf(reg, cls) == IF reg[cls].own THEN cls ELSE "BedrockConverseAgent"

InstancesUsedOf(reg, cls) == reg[OwnerOf(reg, cls)].refs

\* an object is alive while the caller or a live agent refers to it
Alive(x, ags, refs) ==
    \/ x \in refs
    \/ \E a \in 1..Len(ags) : ags[a].live /\ (ags[a].history = x \/ ags[a].tracer = x)

\* _prune_instances_used: assigns the attribute on cls itself
PruneInstancesUsed(reg, cls, ags, refs) ==
    [reg EXCEPT ![cls] = [own |-> TRUE,
                          refs |-> {x \in InstancesUsedOf(reg, cls) : Alive(x, ags, refs)}]]

NoArgument == [mode |-> "none", obj |-> 0]
Factory == [mode |-> "factory", obj |-> 0]
Instance(x) == [mode |-> "instance", obj |-> x]

Arguments(k) ==
    {NoArgument, Factory} \cup {Instance(x) : x \in {y \in callerRefs : objects[y] = k}}

\* one of the two blocks of __init__, for the conversation history or for the
\* tracer: r is the state so far, the result the state after the block
UseInstance(r, cls, k, arg) ==
    LET fresh == Len(r.objects) + 1
    IN  IF r.raised THEN r
        ELSE IF arg.mode = "none"
        THEN [r EXCEPT !.objects = Append(@, k), !.got = Append(@, fresh)]
        ELSE LET x == IF arg.mode = "factory" THEN fresh ELSE arg.obj
                 objs == IF arg.mode = "factory" THEN Append(r.objects, k) ELSE r.objects
             IN  IF x \in InstancesUsedOf(r.reg, cls)
                 THEN [r EXCEPT !.objects = objs, !.raised = TRUE]
                 ELSE [r EXCEPT !.objects = objs,
                                !.reg[OwnerOf(r.reg, cls)].refs = @ \cup {x},
                                !.got = Append(@, x),
                                !.finalize = TRUE]

HeldByLiveAgent(x) ==
    \E a \in 1..Len(agents) : agents[a].live /\ (agents[a].history = x \/ agents[a].tracer = x)

\* an agent that is no longer alive held x
HeldByReleasedAgent(x) ==
    \E a \in 1..Len(agents) : ~agents[a].live /\ (agents[a].history = x \/ agents[a].tracer = x)

\* the objects among the arguments that the caller passed as instances
InstancesPassed(h, t) == {a.obj : a \in {b \in {h, t} : b.mode = "instance"}}

\* what max_successive_tool_invocations can be
ToolInvocationLimits == {-1, 1}

\* cls(conversation_history=h, tracer=t, max_successive_tool_invocations=n):
\* the two blocks, then the check of n; when __init__ raises, the agent under
\* construction is dropped and the finalizers it registered run
Construct(cls, h, t, max_successive_tool_invocations) ==
    /\ Len(agents) < MaxAgents
    /\ Len(objects) + (IF h.mode = "instance" THEN 0 ELSE 1)
                     + (IF t.mode = "instance" THEN 0 ELSE 1) <= MaxObjects
    /\ LET r0 == [objects |-> objects, reg |-> instances_used, got |-> <<>>,
                  raised |-> FALSE, finalize |-> FALSE]
           r == UseInstance(UseInstance(r0, cls, "history", h), cls, "tracer", t)
           raised == r.raised \/ max_successive_tool_invocations < 0
       IN  /\ objects' = r.objects
           /\ IF raised
              THEN /\ agents' = agents
                   /\ instances_used' =
                         IF r.finalize
                         THEN PruneInstancesUsed(r.reg, cls, agents,
                                                 callerRefs \cap (1..Len(objects)))
                         ELSE r.reg
              ELSE /\ agents' = Append(agents, [cls |-> cls, history |-> r.got[1],
                                                tracer |-> r.got[2], live |-> TRUE,
                                                finalize |-> r.finalize])
                   /\ instances_used' = r.reg
           /\ lastInit' = [held |-> \E x \in InstancesPassed(h, t) : HeldByLiveAgent(x),
                           raised |-> raised,
                           valid |-> max_successive_tool_invocations >= 0,
                           reused |-> /\ \E x \in InstancesPassed(h, t) : HeldByReleasedAgent(x)
                                      /\ \A x \in InstancesPassed(h, t) : ~HeldByLiveAgent(x),
                           added |-> {x \in InstancesPassed(h, t) :
                                         /\ x \in InstancesUsedOf(instances_used', cls)
                                         /\ x \notin InstancesUsedOf(instances_used, cls)}]
    /\ UNCHANGED callerRefs
    /\ UNCHANGED <<tracerVars, clientVars, agentVars, stopVars, auxVars>>

\* the last reference to agent a goes away: the callbacks registered with
\* weakref.finalize run
Finalize(a) ==
    /\ agents[a].live
    /\ agents' = [agents EXCEPT ![a].live = FALSE]
    /\ instances_used' =
          IF agents[a].finalize
          THEN PruneInstancesUsed(instances_used, agents[a].cls, agents', callerRefs)
          ELSE instances_used
    /\ UNCHANGED <<objects, callerRefs, lastInit>>
    /\ UNCHANGED <<tracerVars, clientVars, agentVars, stopVars, auxVars>>

\* the caller creates a ConversationHistory or a Tracer
NewObject(k) ==
    /\ Len(objects) < MaxObjects
    /\ objects' = Append(objects, k)
    /\ callerRefs' = callerRefs \cup {Len(objects) + 1}
    /\ UNCHANGED <<agents, instances_used, lastInit>>
    /\ UNCHANGED <<tracerVars, clientVars, agentVars, stopVars, auxVars>>

\* the caller reads agent.conversation_history or agent.tracer
TakeRef(a, x) ==
    /\ agents[a].live
    /\ x \in {agents[a].history, agents[a].tracer}
    /\ x \notin callerRefs
    /\ callerRefs' = callerRefs \cup {x}
    /\ UNCHANGED <<objects, agents, instances_used, lastInit>>
    /\ UNCHANGED <<tracerVars, clientVars, agentVars, stopVars, auxVars>>

\* the caller lets go of an object
DropRef(x) ==
    /\ x \in callerRefs
    /\ callerRefs' = callerRefs \ {x}
    /\ UNCHANGED <<objects, agents, instances_used, lastInit>>
    /\ UNCHANGED <<tracerVars, clientVars, agentVars, stopVars, auxVars>>

NextRegistry ==
    \/ \E cls \in Classes : \E h \in Arguments("history"), t \in Arguments("tracer") :
          \E n \in ToolInvocationLimits : Construct(cls, h, t, n)
    \/ \E a \in 1..Len(agents) : Finalize(a)
    \/ \E k \in {"history", "tracer"} : NewObject(k)
    \/ \E a \in 1..Len(agents), x \in 1..Len(objects) : TakeRef(a, x)
    \/ \E x \in callerRefs : DropRef(x)

SpecRegistry == Init /\ [][NextRegistry]_vars

\* ------------------------------------------------------- claims, engine
ToolFailures == {"ToolError", "ValueError: Unknown tool"}

HasErrorResult(m) ==
    \E i \in 1..Len(m.content) :
        m.content[i].kind = "toolResult" /\ m.content[i].status = "error"

\* the part of C1 about containment: a failure of a tool is never the
\* exception that leaves converse, it is on the tool's span as ai.tool.error
\* and in the tool result as status=error with the toolUseId of the request
C1_ToolFailureIsolated ==
    /\ err \notin ToolFailures
    /\ \A i \in 1..Len(workers) :
          workers[i].state = "done" =>
             LET s == spans[workers[i].scope.span]
                 failed == \E e \in ToolFailures : <<"ai.tool.error", e>> \in s.attributes
             IN  /\ workers[i].raised = "none"
                 /\ workers[i].result.toolUseId = workers[i].block.toolUseId
                 /\ workers[i].result.status = (IF failed THEN "error" ELSE "success")
                 /\ workers[i].block.name \notin RegisteredTools => failed

\* C1: a tool that raises, or a tool name that is not registered, never
\* propagates out of converse: the failure is caught, recorded on the tool's
\* span and turned into a tool result with status=error and the originating
\* toolUseId, and after the results are appended the loop proceeds to the
\* next invocation of the model.
C1_ToolFailureIsolatedAndLoopProceeds ==
    /\ C1_ToolFailureIsolated
    /\ (pc = "loop" /\ Len(history) > 0 /\ HasErrorResult(history[Len(history)]))
          => iter < MaxConverseIterations

\* a call in which a failed tool call was turned into an error result
C1_Witness ==
    /\ pc = "loop"
    /\ Len(history) > 0
    /\ HasErrorResult(history[Len(history)])

IsToolResults(m) ==
    /\ m.role = "user"
    /\ Len(m.content) > 0
    /\ m.content[1].kind = "toolResult"

IsToolUses(m) ==
    /\ m.role = "assistant"
    /\ Len(m.content) > 0
    /\ m.content[1].kind = "toolUse"

\* C2: the message appended after a model response with tool-use blocks
\* u1..un holds exactly n tool results, the i-th carrying the toolUseId of
\* ui, whatever order the tool calls completed in.
C2_ResultsInRequestOrder ==
    \A k \in 1..Len(history) :
        /\ IsToolResults(history[k]) =>
              /\ k > 1
              /\ IsToolUses(history[k - 1])
              /\ Len(history[k].content) = Len(history[k - 1].content)
              /\ \A i \in 1..Len(history[k].content) :
                    /\ history[k].content[i].kind = "toolResult"
                    /\ history[k].content[i].toolUseId = history[k - 1].content[i].toolUseId
        /\ (IsToolUses(history[k]) /\ k < Len(history)) => IsToolResults(history[k + 1])

\* two tool calls of one response completed in the reverse of the order they
\* were requested in, and their results have been appended
C2_Witness ==
    /\ pc = "loop"
    /\ Len(finished) = 2
    /\ finished[1] = 2
    /\ IsToolResults(history[Len(history)])
    /\ Len(history[Len(history)].content) = 2

PoolWorkers == {i \in 1..Len(workers) : workers[i].ctx # 0}

\* C3: a tool call dispatched to the pool runs under a copy of the
\* dispatcher's context taken at submission: the tool's span has the span
\* current in the dispatching thread as parent, its trace_id, and the
\* conversation id and auth context inherited from it; what the worker does
\* to its context does not reach the dispatcher, and the worker's context is
\* gone once the dispatch is over.
C3_WorkerRunsInDispatcherContext ==
    /\ \A i \in PoolWorkers :
          workers[i].state \in {"running", "done"} =>
             LET s == workers[i].scope.span
             IN  /\ spans[s].parent_span = root.span
                 /\ spans[s].trace_id = spans[root.span].trace_id
                 /\ <<"ai.conversation.id", "conversation">> \in AttributesOf(T, s)
                 /\ <<"ai.auth.context", "principal">> \in AttributesOf(T, s)
                 /\ workers[i].state = "running" => cur[workers[i].ctx] = s
                 /\ workers[i].state = "done" => cur[workers[i].ctx] = root.span
    /\ PoolWorkers # {} => cur[0] = root.span
    /\ pc # "tools" => \A c \in Contexts \ {0} : cur[c] = NoSpan

\* two tool calls run in the pool at the same time, a third context being
\* the dispatcher's
C3_Witness ==
    /\ pc = "tools"
    /\ Cardinality(PoolWorkers) >= 2
    /\ \E i, j \in PoolWorkers :
          /\ i # j
          /\ workers[i].state = "running"
          /\ workers[j].state = "done"

\* C8: within one call of converse the number of successive rounds of tool
\* dispatch never exceeds max_successive_tool_invocations, and a model that
\* keeps asking for tools beyond it makes the call fail with the "too many
\* successive tool invocations" error.
C8_DispatchRoundsWithinBound ==
    /\ rounds <= MaxSuccessiveToolInvocations
    /\ err = "Exception: Too many successive tool invocations"
          => rounds >= MaxSuccessiveToolInvocations

\* the loop ran out: the call failed with the error
C8_Witness ==
    /\ pc = "raised"
    /\ err = "Exception: Too many successive tool invocations"

LiveAgents == {a \in 1..Len(agents) : agents[a].live}

\* C10: at any time at most one live agent holds a given ConversationHistory
\* object and at most one holds a given Tracer object; constructing an agent
\* with an object that a live agent holds raises.
C10_OneLiveAgentPerInstance ==
    /\ \A a, b \in LiveAgents :
          a # b => /\ agents[a].history # agents[b].history
                   /\ agents[a].tracer # agents[b].tracer
    /\ lastInit.held => lastInit.raised

\* an agent was constructed with an object a live agent holds, and __init__ raised
C10_Witness ==
    /\ lastInit.held
    /\ lastInit.raised

\* ---------------------------------------------------- claims, attributes
ValuesOf(kv, k) == {p[2] : p \in {q \in kv : q[1] = k}}

ChildrenOf(p) == {c \in 1..Len(spans) : spans[c].parent_span = p}

NotSetBy(C, kv) == {p \in kv : p[1] \notin Keys(spans[C].attributes)}

\* C12: inheritable attributes are copied by value when a child span is
\* created: what a span has from its ancestors is what they handed down when
\* it was opened, whatever is added or changed on them afterwards.
C12_InheritedByValueAtCreation ==
    \A C \in 1..Len(spans) :
        NotSetBy(C, AttributesOf(T, C)) = NotSetBy(C, opened[C].inheritedAtOpen)

\* C12 as amended: an inheritable attribute added to or changed on a span is
\* seen from then on in the attributes of the children that span already
\* has, unless the child sets the key itself.
C12_InheritedThroughParentWhenRead ==
    lastAdd.inheritable =>
       \A C \in ChildrenOf(lastAdd.span) :
           (C <= lastAdd.spans /\ lastAdd.pair[1] \notin Keys(spans[C].attributes))
              => ValuesOf(AttributesOf(T, C), lastAdd.pair[1]) = {lastAdd.pair[2]}

\* a child was opened under a span that handed down another value, or none,
\* for the key; the span then set k=v inheritably and the child shows v
C12_Witness ==
    /\ lastAdd.inheritable
    /\ \E C \in ChildrenOf(lastAdd.span) :
          /\ C <= lastAdd.spans
          /\ lastAdd.pair \notin opened[C].inheritedAtOpen
          /\ lastAdd.pair \in AttributesOf(T, C)

\* -------------------------------------------------- claims, multi-agent
Subordinates == {i \in 1..Len(invocations) : invocations[i].caller # 0}

\* C13: once the supervisor's call has returned, the spans of each
\* subordinate conversation are exactly those retrieved by its
\* (conversation_id, subcontext_id), the span sets of different subordinate
\* conversations are disjoint, and the supervisor's spans are its own
\* together with those of all subordinates.
C13_SubordinateSpansBySubcontext ==
    (invocations # <<>> /\ callStack = <<>>) =>
       /\ \A i \in Subordinates :
             TracesOfSubcontext(T, invocations[i].subcontext) = invocations[i].spans
       /\ \A i, j \in Subordinates :
             i # j => invocations[i].spans \cap invocations[j].spans = {}
       /\ TracesOfConversation(T) = UNION {invocations[i].spans : i \in 1..Len(invocations)}
       /\ \A i \in Subordinates :
             /\ spans[invocations[i].root.span].parent_span = invocations[i].tool.span
             /\ spans[invocations[i].root.span].trace_id = spans[invocations[1].root.span].trace_id

\* the supervisor's call has returned after the same subordinate was
\* invoked by two different callers
C13_Witness ==
    /\ invocations # <<>>
    /\ callStack = <<>>
    /\ \E i, j \in Subordinates :
          /\ i # j
          /\ invocations[i].agent = invocations[j].agent
          /\ invocations[i].caller # invocations[j].caller

\* ------------------------------------------- claims, stored history
Occurrences(blocks, b) == Cardinality({i \in 1..Len(blocks) : blocks[i] = b})

Assistants(msgs) == {i \in 1..Len(msgs) : msgs[i].role = "assistant"}

\* C15: turn_nr is the number of assistant messages of the history without
\* a tool-use block; user messages, and assistant messages with a tool-use
\* block (even after a text block), do not count.
C15_TurnNrCountsCompletedAssistantMessages ==
    turn_nr = Cardinality({i \in Assistants(messages) :
                              \A j \in 1..Len(messages[i].content) :
                                  messages[i].content[j].kind # "toolUse"})

\* a history with a completed turn and, after it, an assistant message
\* that has a text block followed by a tool-use block
C15_Witness ==
    /\ Len(messages) = 4
    /\ turn_nr = 1
    /\ messages[4].content[1].kind = "text"
    /\ HasToolUse(messages[4])

\* ------------------------------------------- claims, turns and cycles
FirstOfTurn(k) == k = 1 \/ contexts[k - 1].turn # contexts[k].turn

CyclesWithinTurn ==
    \A k \in 1..Len(contexts) :
       IF FirstOfTurn(k) THEN contexts[k].cycle_nr = 0
       ELSE /\ contexts[k].cycle_nr = contexts[k - 1].cycle_nr + 1
            /\ contexts[k].turn_nr = contexts[k - 1].turn_nr

\* C16, as stated: cycle_nr is 0 at the first model invocation of a turn
\* and one more at each further one, with turn_nr unchanged; at the first
\* model invocation of the next turn turn_nr is one more.
C16_NextTurnIsOneHigher ==
    /\ CyclesWithinTurn
    /\ \A k \in 2..Len(contexts) :
          FirstOfTurn(k) => contexts[k].turn_nr = contexts[k - 1].turn_nr + 1

\* C16, amended: turn_nr is one more at the next turn when the turn before
\* it completed with a final assistant message, and the same when that
\* turn ended with an error.
C16_NextTurnIsOneHigherAfterCompletedTurn ==
    /\ CyclesWithinTurn
    /\ \A k \in 2..Len(contexts) :
          FirstOfTurn(k) =>
             contexts[k].turn_nr = contexts[k - 1].turn_nr +
                (IF turns[contexts[k - 1].turn] = "completed" THEN 1 ELSE 0)

\* a turn with two cycles completed, and the next turn has begun
C16_Witness ==
    \E k \in 3..Len(contexts) :
       /\ contexts[k - 2].cycle_nr = 0
       /\ contexts[k - 1].cycle_nr = 1
       /\ contexts[k - 1].turn = contexts[k - 2].turn
       /\ turns[contexts[k - 1].turn] = "completed"
       /\ contexts[k].cycle_nr = 0
       /\ contexts[k].turn_nr = contexts[k - 1].turn_nr + 1

\* ------------------------------------------------- claims, overriding
\* C17: with only converse_stream overridden, converse returns the
\* concatenation of the fragments of the overriding converse_stream; with
\* only converse overridden, iterating converse_stream yields the text the
\* overriding converse returned.
C17_UnoverriddenEntryPointDelegates ==
    /\ (returned.done /\ ConverseDelegates) => returned.value = Join(subclass.fragments)
    /\ (stream.done /\ ConverseStreamDelegates) => stream.yielded = <<subclass.text>>

\* converse_stream of a subclass that overrides only converse, with a text
\* that is not empty, was iterated to its end
C17_Witness ==
    /\ ConverseStreamDelegates
    /\ subclass.text = "ab"
    /\ stream.done
    /\ stream.value = "ab"
    /\ stream.yielded = <<>>

\* ------------------------------------------ claims, response stream
\* the payloads of the deltas of kind k addressed to a block index, in the
\* order they arrived
DeltasTo(index, k) ==
    LET at == SelectSeq(events, LAMBDA e : e.type = "delta" /\ e.index = index /\ e.kind = k)
    IN  [i \in 1..Len(at) |-> at[i].payload]

\* C18: the input of an assembled toolUse block is what parsing the
\* concatenation of its tool-input deltas, in arrival order, gives; while
\* the stream is read the deltas are only concatenated, and nothing is
\* parsed.
C18_ToolInputParsedOnceFromConcatenation ==
    /\ \A i \in ToolUseBlocks :
          /\ content_blocks[i].parsed <=> streamState = "assembled"
          /\ content_blocks[i].text = Join(DeltasTo(i - 1, "toolUse"))
          /\ (content_blocks[i].parsed /\ IsJson(Join(DeltasTo(i - 1, "toolUse"))))
                => content_blocks[i].input = JsonLoads(Join(DeltasTo(i - 1, "toolUse")))
    /\ streamState = "JSONDecodeError" =>
          \E i \in ToolUseBlocks : ~IsJson(Join(DeltasTo(i - 1, "toolUse")))

\* the text {"k":1} arrived in two deltas, neither of them JSON, for a
\* started toolUse block, and the block was assembled
C18_Witness ==
    /\ streamState = "assembled"
    /\ \E i \in ToolUseBlocks :
          /\ events[1].type = "start"
          /\ events[1].index = i - 1
          /\ DeltasTo(i - 1, "toolUse") = <<"{\"k\":", "1}">>
          /\ content_blocks[i].input = {<<"k", 1>>}

TextBlocks == {i \in 1..Established : content_blocks[i].kind \in {"text", "reasoningContent"}}

\* C19: the text of every text block and of every reasoning-text block is
\* the concatenation, in arrival order, of the deltas of its kind
\* addressed to its index.
C19_TextIsConcatenationOfDeltas ==
    \A i \in TextBlocks :
       content_blocks[i].text = Join(DeltasTo(i - 1, content_blocks[i].kind))

\* a reasoning-text block was assembled from two reasoning-text deltas and
\* holds the first of them only
C19_Witness ==
    /\ streamState = "assembled"
    /\ \E i \in TextBlocks :
          /\ content_blocks[i].kind = "reasoningContent"
          /\ DeltasTo(i - 1, "reasoningContent") = <<"a", "b">>
          /\ content_blocks[i].text = "a"

Mismatched(e) == e.type = "delta" /\ e.established \notin {"none", e.kind}

\* C20: a delta whose payload kind differs from the kind of the block
\* established at its index makes converse_stream raise an error.
C20_MismatchedDeltaRaises ==
    \A k \in 1..Len(events) : Mismatched(events[k]) => events[k].raised

\* a reasoning-text delta for an established text block raised nothing,
\* and the message was assembled without it
C20_Witness ==
    /\ streamState = "assembled"
    /\ \E k \in 1..Len(events) :
          /\ Mismatched(events[k])
          /\ events[k].established = "text"
          /\ events[k].kind = "reasoningContent"
          /\ ~events[k].raised
          /\ content_blocks[events[k].index + 1].text = Join(DeltasTo(events[k].index, "text"))

EndOfStream == {"assembled", "KeyError: 'input'", "JSONDecodeError",
                Incomplete(FALSE, ""), Incomplete(TRUE, "")}

TextDeltas ==
    LET at == SelectSeq(events, LAMBDA e : e.type = "delta" /\ e.kind = "text" /\ ~e.raised)
    IN  [i \in 1..Len(at) |-> at[i].payload]

Stored == {memory[i] : i \in 1..Len(memory)}

Returned == {lastQuery.result[i] : i \in 1..Len(lastQuery.result)}

C24_TraceIdSelectsItsSpans ==
    (lastQuery.done /\ lastQuery.trace_id # 0 /\ lastQuery.attribute_filter = {}) =>
        Returned = {t \in Stored : t.trace_id = lastQuery.trace_id}

\* spans of two traces are stored, and asking for one trace returned a
\* span of the other
C24_Witness ==
    /\ lastQuery.done
    /\ lastQuery.trace_id = 1
    /\ lastQuery.attribute_filter = {}
    /\ \E t \in Returned : t.trace_id = 2
    /\ \E t \in Returned : t.trace_id = 1

\* C25: get_traces returns the matching spans in non-decreasing
\* started_at order, whatever the order they were persisted in.
C25_ResultOrderedByStartedAt ==
    lastQuery.done =>
       /\ \A i, j \in 1..Len(lastQuery.result) :
             i < j => lastQuery.result[i].started_at <= lastQuery.result[j].started_at
       /\ Returned \subseteq Stored
       /\ Len(lastQuery.result) = Cardinality(Returned)

\* a span that started later was persisted before one that started
\* earlier, and both were returned, the earlier first
C25_Witness ==
    /\ lastQuery.done
    /\ Len(memory) = 2
    /\ memory[1].started_at > memory[2].started_at
    /\ lastQuery.result = <<memory[2], memory[1]>>

\* C26: get_traces with neither a trace_id nor an attribute_filter raises
\* an error.
C26_NoSelectorIsRejected ==
    (lastQuery.done /\ lastQuery.trace_id = 0 /\ lastQuery.attribute_filter = {}) =>
        lastQuery.raised # "none"

\* get_traces() without a selector returned every stored span
C26_Witness ==
    /\ lastQuery.done
    /\ lastQuery.trace_id = 0
    /\ lastQuery.attribute_filter = {}
    /\ lastQuery.raised = "none"
    /\ Len(memory) = 2
    /\ Returned = Stored

Min(a, b) == IF a <= b THEN a ELSE b

\* C27: the memory never holds more than memory_size spans; after n
\* persists it holds the last min(n, memory_size) persisted spans, in the
\* order they were persisted.
C27_MemoryHoldsLastPersisted ==
    /\ Len(memory) <= MemorySize
    /\ Len(memory) = Min(persists, MemorySize)
    /\ \A i \in 1..Len(memory) : memory[i].span_id = persists - Len(memory) + i

\* more spans than memory_size were persisted, and the first is gone
C27_Witness ==
    /\ persists > MemorySize
    /\ Len(memory) = MemorySize
    /\ \A i \in 1..Len(memory) : memory[i].span_id > 1

\* C28: after any sequence of add_tracer, remove_tracer and temporary_tracer,
\* the TeeTracer reports snapshot_enabled exactly when at least one of its
\* current children is snapshot-capable.
C28_SnapshotEnabledIffCapableChild ==
    snapshot_enabled = (\E child \in Range(tracers) : SnapshotCapable(child))

\* a temporary child was added and removed again behind a child that is not
\* snapshot-capable and a child that is
C28_Witness ==
    /\ tracers = <<"PlainTracer", "InMemoryTracer">>
    /\ temporary = <<>>
    /\ teeError = "none"
    /\ ~snapshot_enabled

\* the children that answer get_traces
Queryable(children) == SelectSeq(children, LAMBDA child : child # "HumanReadableTracer")

\* C29: TeeTracer.get_traces returns the result of the first child, in
\* configuration order, that supports queries; a child without get_traces
\* that is configured before one with it is skipped and the call does not fail.
C29_FirstQueryableChildAnswers ==
    (lastQuery.done /\ Queryable(tracers) # <<>>) =>
        lastQuery = ChildGetTraces(Queryable(tracers)[1], memory, lastQuery.trace_id,
                                   lastQuery.attribute_filter)

\* the query was made with a HumanReadableTracer configured before the
\* InMemoryTracer, which holds a span
C29_Witness ==
    /\ lastQuery.done
    /\ tracers = <<"HumanReadableTracer", "InMemoryTracer">>
    /\ memory # <<>>

\* shutdown() or __exit__ on a queue that is already shut down
ShutdownAgain == is_shutdown /\ (Shutdown \/ ExitQueueTracer)

\* C30: iteration over an IterableTracer ends cleanly after shutdown(): a
\* consumer blocked waiting for the next span is unblocked and its loop ends
\* without an exception, and calling shutdown again, or leaving the tracer's
\* context manager afterwards, has no further effect and raises nothing.
C30_IterationEndsCleanlyAfterShutdown ==
    /\ [](consumer = "done" => is_shutdown /\ queue = <<>>)
    /\ (is_shutdown ~> consumer = "done")
    /\ [][ShutdownAgain => /\ UNCHANGED <<queue, is_shutdown, consumer, received, waits>>
                           /\ queueError' = "none"]_vars

\* the loop blocked, was given every span, and ended after the queue was
\* shut down twice
C30_Witness ==
    /\ consumer = "done"
    /\ waits > 0
    /\ received = MaxPuts
    /\ shutdowns = MaxShutdowns
    /\ queueError = "none"

\* the positions of the log at which span_id was handed to `call`
CallsOf(call, span_id) ==
    {i \in 1..Len(log) : log[i].call = call /\ log[i].span_id = span_id}

OpenSpans == {scopes[i].span_id : i \in 1..Len(scopes)}

\* C31: snapshots never change the completion persistence: a span is
\* persisted exactly once, when its scope exits and after every snapshot
\* emitted inside the scope, and the InMemoryTracer stores no snapshot as an
\* additional span.
C31_SnapshotsLeaveCompletionAlone ==
    /\ \A span_id \in 1..MaxPersists :
          /\ span_id \in OpenSpans => CallsOf("persist", span_id) = {}
          /\ (span_id <= persists + Len(scopes) /\ span_id \notin OpenSpans) =>
                /\ Cardinality(CallsOf("persist", span_id)) = 1
                /\ \A i \in CallsOf("persist_snapshot", span_id) :
                      \A j \in CallsOf("persist", span_id) : i < j
    /\ Len(memory) = Min(persists, MemorySize)
    /\ \A i \in 1..Len(memory) :
          Cardinality({j \in 1..Len(memory) : memory[j].span_id = memory[i].span_id}) = 1

\* a span and its parent emitted snapshots and both scopes were left
C31_Witness ==
    /\ scopes = <<>>
    /\ persists = 2
    /\ CallsOf("persist_snapshot", 1) # {}
    /\ CallsOf("persist_snapshot", 2) # {}
    /\ Len(memory) = 2

\* the spans above s: its parent, the parent of that one, and so on
RECURSIVE AncestorsOf(_)
AncestorsOf(s) ==
    IF spans[s].parent_span = NoSpan THEN {}
    ELSE {spans[s].parent_span} \cup AncestorsOf(spans[s].parent_span)

\* the spans from D up to, and without, its ancestor P
UpTo(D, P) == {M \in {D} \cup AncestorsOf(D) : P \in AncestorsOf(M)}

\* C32: an attribute added as inheritable to a span is readable through the
\* attributes of every descendant, also of one constructed before the
\* attribute was added, unless the descendant set that key itself (and then
\* it, and whoever inherits the key from it, reads that value); an attribute
\* that is not inheritable is visible only on the span it was set on.
C32_InheritableReachesEveryDescendant ==
    /\ \A P \in 1..Len(spans) : \A kv \in spans[P].inheritable :
          \A D \in {d \in 1..Len(spans) : P \in AncestorsOf(d)} :
              /\ kv[1] \in Keys(AttributesOf(T, D))
              /\ (\A M \in UpTo(D, P) : kv[1] \notin Keys(spans[M].attributes))
                    => kv \in AttributesOf(T, D)
              /\ kv[1] \in Keys(spans[D].attributes)
                    => ValuesOf(AttributesOf(T, D), kv[1]) = ValuesOf(spans[D].attributes, kv[1])
    /\ \A D \in 1..Len(spans) : \A kv \in AttributesOf(T, D) :
          \/ kv \in spans[D].attributes
          \/ \E A \in AncestorsOf(D) : kv \in spans[A].inheritable

\* the top span set k inheritably after its child and its grandchild were
\* opened, the child set k without handing it down, and the grandchild reads
\* the top span's value
C32_Witness ==
    /\ lastAdd.inheritable
    /\ lastAdd.span = 1
    /\ lastAdd.spans = 3
    /\ Len(spans) = 3
    /\ spans[2].parent_span = 1
    /\ spans[3].parent_span = 2
    /\ lastAdd.pair[1] \in Keys(spans[2].attributes)
    /\ lastAdd.pair \notin spans[2].attributes
    /\ spans[2].inheritable = {}
    /\ lastAdd.pair \in AttributesOf(T, 3)

\* C33: with persist and get_traces called concurrently from several
\* threads, every get_traces call returns a consistent view of the buffer and
\* never fails because the buffer changed underneath it.
C33_ConcurrentReadIsConsistent ==
    lastQuery.done =>
        /\ lastQuery.raised = "none"
        /\ lastQuery.result = InMemoryGetTraces(memory, 0, {})

\* a get_traces call ended while the buffer held spans, one of them
\* persisted after the call had begun
C33_Witness ==
    /\ lastQuery.done
    /\ lastQuery.raised = "RuntimeError"
    /\ Len(memory) = MemorySize

\* C34: converse_stream makes progress only as its caller iterates: before
\* the first fragment is requested no message has been appended and no model
\* call has been made, and once the caller stops iterating no further model
\* invocation or tool dispatch takes place.
C34_ProgressOnlyWhileIterated ==
    /\ [](requests = 0 => appended = 0 /\ invoked = 0)
    /\ [](gen = "running" => requests = delivered + 1)
    /\ [][gen # "running" => UNCHANGED <<appended, invoked, dispatched>>]_vars

\* the caller took the fragments of the first model invocation and one of the
\* second, and asks for no more
C34_Witness ==
    /\ gen = "suspended"
    /\ invoked = 2
    /\ dispatched = 1
    /\ position = "stream"
    /\ requests = delivered

\* C35: once the agent that held a ConversationHistory or Tracer instance has
\* been released, that same instance can be passed to a new agent without an
\* error.
C35_InstanceOfReleasedAgentIsFree ==
    (lastInit.reused /\ lastInit.valid) => ~lastInit.raised

\* an agent was constructed with an instance that only a released agent held
C35_Witness ==
    /\ lastInit.reused
    /\ lastInit.valid
    /\ \E a \in 1..Len(agents) : ~agents[a].live

\* C39: a construction that fails, by a negative
\* max_successive_tool_invocations or by a Tracer instance already in use,
\* leaves the registry as it was: the instances passed to the failed
\* constructor are not registered by it and can be given to a later agent.
C39_FailedConstructionRegistersNothing ==
    lastInit.raised => lastInit.added = {}

\* a construction with instances of the caller failed on the limit, no agent
\* holding any of them
C39_Witness ==
    /\ lastInit.raised
    /\ ~lastInit.valid
    /\ ~lastInit.held
    /\ ~lastInit.reused
    /\ lastInit.added # {}

\* the steps a call that runs has left at most: the rounds of the loop not yet
\* used, each worth more than the dispatch of one round, and within a round
\* the steps its tool calls have left
StepsOfRound == 2 * MaxTools + 2

StepsLeft ==
    IF pc = "loop" THEN (MaxConverseIterations - iter + 1) * StepsOfRound
    ELSE IF pc = "tools"
    THEN (MaxConverseIterations - iter) * StepsOfRound + 1
         + 2 * Cardinality({i \in 1..Len(workers) : workers[i].state = "submitted"})
         + Cardinality({i \in 1..Len(workers) : workers[i].state = "running"})
    ELSE 0

\* the conditions under which the steps of a call can be taken: a turn of the
\* loop or its exhaustion, the start or the end of a tool call, the end of a
\* dispatch
CanTakeStep ==
    \/ pc = "loop" /\ iter < MaxConverseIterations
    \/ pc = "loop" /\ iter = MaxConverseIterations
    \/ pc = "tools" /\ \E i \in 1..Len(workers) : workers[i].state = "submitted"
    \/ pc = "tools" /\ \E i \in 1..Len(workers) :
          workers[i].state = "running" /\ ToolOutcomes(workers[i].block.name) # {}
    \/ pc = "tools" /\ \A i \in 1..Len(workers) : workers[i].state = "done"

\* C36: every converse call terminates: a call that runs can always take a
\* step, every step it takes leaves it fewer steps, so that, each model call
\* and each tool call returning, the call returns or raises, after at most
\* max_successive_tool_invocations + 1 model invocations.
C36_ConverseTerminates ==
    /\ [](llmCalls <= MaxSuccessiveToolInvocations + 1)
    /\ [](pc \in {"loop", "tools"} => StepsLeft > 0 /\ CanTakeStep)
    /\ [][(pc \in {"loop", "tools"}) => (StepsLeft' < StepsLeft)]_vars

\* the call used every round of its loop on tool calls and raised
C36_Witness ==
    /\ pc = "raised"
    /\ err = "Exception: Too many successive tool invocations"
    /\ llmCalls = MaxSuccessiveToolInvocations + 1
    /\ rounds = MaxSuccessiveToolInvocations + 1

\* the scopes left by the step, and the outermost of them
LeftByStep(s) == opened[s].left = "active" /\ opened'[s].left # "active"

OutermostLeftByStep(s) ==
    /\ LeftByStep(s)
    /\ \A r \in 1..Len(opened) : LeftByStep(r) => s <= r

\* C37: when a trace() scope is left, by return, by an exception or by the
\* close of a traced generator, the ambient current span is again the span
\* that was ambient immediately before the scope was entered, at every depth
\* of nesting and also when the consumer of the generator opened and left
\* spans of its own between two fragments.
C37_AmbientRestoredOnExit ==
    [][\A s \in 1..Len(opened) :
          OutermostLeftByStep(s) => cur'[0] = opened[s].ambient]_vars

\* inside a scope of the calling code a traced generator was started, the
\* consumer opened and left a span of its own while the generator was
\* suspended, and the generator was closed
C37_Witness ==
    /\ Len(opened) = 3
    /\ opened[1].frame = "main" /\ opened[1].left = "active"
    /\ opened[2].frame = "gen" /\ opened[2].ambient = 1 /\ opened[2].left = "closed"
    /\ opened[3].frame = "main" /\ opened[3].ambient = 2 /\ opened[3].left = "normal"
    /\ cur[0] = 1

\* the toolUse blocks that were started and got no input delta
WithoutInputDelta == {i \in ToolUseBlocks : ~content_blocks[i].hasText}

\* C40: a streamed tool-use block for which no tool-input delta arrives
\* between its start and the end of the response is assembled with the empty
\* object as its input, and the message goes on to the dispatch of the tool.
C40_NoInputDeltaGivesEmptyObject ==
    (/\ streamState \in EndOfStream
     /\ Incomplete(metadata, stop_reason) = "none"
     /\ \A i \in ToolUseBlocks : content_blocks[i].text = "" \/ IsJson(content_blocks[i].text)
     /\ WithoutInputDelta # {})
        => /\ streamState = "assembled"
           /\ \A i \in WithoutInputDelta :
                 content_blocks[i].parsed /\ content_blocks[i].input = {}

\* a complete response that stops for a tool use whose block was started and
\* got no delta: the lookup of its input raised
C40_Witness ==
    /\ streamState = "KeyError: 'input'"
    /\ stop_reason = "tool_use"
    /\ metadata
    /\ Established = 1
    /\ WithoutInputDelta = {1}
    /\ Len(events) = 1
    /\ events[1].type = "start"

\* C38: after any sequence of converse / converse_stream calls on one
\* conversation, those that fail on the model call, on an incomplete stream
\* or on the bound of the loop included, no two consecutive messages of the
\* history have the same role.
C38_RolesAlternate ==
    \A i \in 1..(Len(messages) - 1) : messages[i].role # messages[i + 1].role

\* the first call failed on its model invocation, leaving the user message as
\* the last one, and the second call has stored its user message
C38_Witness ==
    /\ turns = <<"error", "running">>
    /\ Len(messages) = 2
    /\ messages[1].role = "user"
    /\ messages[2].role = "user"

\* ------------------------------------------------------ claims, tracer
PersistCount(s) == Cardinality({i \in 1..Len(persisted) : persisted[i] = s})

\* C4: a span whose scope has been left - normally, by an exception, or by
\* the close of a traced generator - has ended_at set and was handed to
\* persist exactly once; a span whose scope is still active was not persisted.
C4_PersistedOnceOnEveryExit ==
    \A s \in 1..Len(spans) :
        IF s \in ActiveSpans
        THEN PersistCount(s) = 0 /\ ~spans[s].ended
        ELSE PersistCount(s) = 1 /\ spans[s].ended

C4_Witness ==
    /\ \E s \in 1..Len(spans) : opened[s].left = "closed" /\ opened[s].frame = "gen"
                                /\ opened[s].excIn = "GeneratorExit" /\ PersistCount(s) = 1
    /\ \E s \in 1..Len(spans) : opened[s].left = "closed" /\ opened[s].frame = "gen"
                                /\ opened[s].excIn = "none" /\ PersistCount(s) = 1
    /\ \E s \in 1..Len(spans) : opened[s].left = "exception" /\ PersistCount(s) = 1

\* C5: a span whose scope an exception left is persisted with status ERROR
\* and the exception's type, message and traceback as attributes, and the
\* same exception went on to the caller of the scope.
C5_ErrorRecordedAndPropagated ==
    \A s \in 1..Len(spans) :
        (s \notin ActiveSpans /\ opened[s].excIn # "none") =>
            /\ spans[s].span_status = "ERROR"
            /\ ExceptionAttributes(opened[s].excIn) \subseteq spans[s].attributes
            /\ PersistCount(s) = 1
            /\ opened[s].excOut = opened[s].excIn

C5_Witness ==
    /\ exc = "ValueError"
    /\ \E s \in 1..Len(spans) :
          /\ opened[s].left = "exception" /\ opened[s].frame = "main"
          /\ spans[s].span_status = "ERROR" /\ PersistCount(s) = 1

\* C6: every span with a parent has its parent's trace_id, whether the
\* parent was given explicitly or taken from the ambient current span.
C6_ChildSharesTraceId ==
    \A s \in 1..Len(spans) :
        spans[s].parent_span # NoSpan =>
            spans[s].trace_id = spans[spans[s].parent_span].trace_id

\* C6, the part the code keeps: a span whose parent was the ambient span
C6_AmbientChildSharesTraceId ==
    \A s \in 1..Len(spans) :
        (spans[s].parent_span # NoSpan /\ opened[s].explicit = NoSpan) =>
            spans[s].trace_id = spans[spans[s].parent_span].trace_id

\* C7: a span's parent is the explicit parent if one was given, otherwise the
\* span ambient at open time; an active scope is the ambient current span
\* until a scope opened inside it takes over, so a span opened without an
\* explicit parent is the child of the innermost scope active at that time.
C7_ParentIsExplicitOrEnclosingScope ==
    /\ \A s \in 1..Len(spans) :
          /\ opened[s].explicit # NoSpan => spans[s].parent_span = opened[s].explicit
          /\ opened[s].explicit = NoSpan => spans[s].parent_span = opened[s].ambient
          /\ opened[s].explicit = NoSpan => spans[s].parent_span = opened[s].innermost
    /\ cur[0] = InnermostActive

\* C7, the part the code keeps: explicit parent, else the ambient span
C7_ParentIsExplicitOrAmbient ==
    \A s \in 1..Len(spans) :
        /\ opened[s].explicit # NoSpan => spans[s].parent_span = opened[s].explicit
        /\ opened[s].explicit = NoSpan => spans[s].parent_span = opened[s].ambient

====
